---- MODULE Spec2Model ----
(***************************************************************************)
(* Timing engine of the guided-breathing application (latest revision of   *)
(* src/app.js, the second closure, lines 834-1865): the session clock, the *)
(* phase scheduler with its two driving modes (animation frames in the     *)
(* foreground, a single-shot timer in the background) and the lifecycle    *)
(* operations start / pause / reset / complete; the initialization from    *)
(* the stored preferences (localStorage); the render projector that maps  *)
(* a phase's progress to the circle's scale and the session-remaining      *)
(* text; and the two collaborators the lifecycle operations call into,     *)
(* the screen wake lock and the phase tone, with their asynchronous        *)
(* continuations.                                                          *)
(*                                                                         *)
(* Times are performance.now() samples in integer milliseconds.  The       *)
(* source keeps pausedTimeRemaining in (fractional) seconds; the model     *)
(* keeps the same quantity in milliseconds so that the arithmetic stays    *)
(* in the integers (the source's value times 1000).                        *)
(***************************************************************************)
EXTENDS Integers, Sequences, FiniteSets

\* ------------------------------------------------------------------ bounds
\* The clock stops at MaxNow ms.
MaxNow == 12000
\* The clock of the uninterrupted-run specification stops here.
MaxNowContinuous == 21000
\* At most this many animation-frame requests are outstanding in the model.
MaxPendingFrames == 2
\* completeSession runs at most this often between two resets in the model.
MaxCompletions == 2
\* The clock stops here in the runs that change the exercise; the third phase
\* of the three-phase exercise is entered before it.
MaxNowSelection == 14000
\* The clock samples handed to the scheduler range over this many grid points.
MaxSamples == 6
\* The clock stops here in the runs with failing platform calls.
MaxNowFailing == 8000
\* The per-phase cue counter saturates here.
MaxCues == 2
\* The per-phase count of runAnimation evaluations saturates here.
MaxEvaluations == 2
\* The clock stops here in the runs with scheduling fairness.
MaxNowFair == 14000
\* The bounded session length (seconds) offered by the duration buttons in the
\* model, besides 0 (unbounded) and the default.
ShortSession == 5
\* The clock's last instant in the wake-lock runs.
MaxNowWake == 9000
\* Most requestWakeLock invocations suspended at an await at one time.
MaxWakeCalls == 2
\* Most wake-lock sentinels alive (held, or released with the event pending).
MaxSentinels == 2
\* Most keep-alive intervals installed at one time.
MaxIntervals == 1
\* The clock's last instant in the phase-tone runs.
MaxNowTone == 3000
\* Most oscillators started and not yet ended at one time.
MaxOscillators == 2
\* The clock's last instant in the runs over a usable preference store.
MaxNowPreferences == 6000
\* The samples of the session clock handed to updateTimeRemaining: the
\* multiples of SampleStepMs up to MaxRemainingSamples of them.
SampleStepMs == 500
MaxRemainingSamples == 362

\* --------------------------------------------------------------- constants
\* app.js:903  let sessionDuration = 180
DefaultDuration == 180
\* app.js:1074  Math.max(10, phase.duration - elapsed)
MinimumDelayMs == 10
\* The keep-alive interval's period (app.js:1236) and the delay of the release
\* that follows completion (app.js:1740), in ms.
KeepAliveMs == 5000
ReleaseDelayMs == 2000
\* The delay of a deferred tone start (app.js:1352), the fade-out after which
\* a stopped oscillator ends (app.js:1321) and the margin after which a tone
\* that was left to play ends (app.js:1395), in ms.
DeferredStartMs == 150
StopAfterMs == 250
ToneMarginMs == 100

\* app.js:838-854
EXERCISES ==
  [ relaxing |->
      << [name |-> "Breathe in",  duration |-> 4000, scale |-> "grow"],
         [name |-> "Breathe out", duration |-> 6000, scale |-> "shrink"] >>,
    calm |->
      << [name |-> "Breathe in",  duration |-> 4000, scale |-> "grow"],
         [name |-> "Hold",        duration |-> 7000, scale |-> "hold"],
         [name |-> "Breathe out", duration |-> 8000, scale |-> "shrink"] >> ]

ExerciseIds == DOMAIN EXERCISES

DurationChoices == {0, ShortSession}

\* Grid of clock samples, in ms: two samples per shortest phase.  The clock
\* advances to the next grid point, or to an earlier instant at which something
\* is due.
TickMs == EXERCISES.relaxing[1].duration \div 2

\* ----------------------------------------------------------------- helpers
\* JavaScript null for the timestamp / label fields; a value v is <<v>>.
Null == << >>
Some(v) == << v >>
Val(x) == x[1]

Max(a, b) == IF a >= b THEN a ELSE b
Min(a, b) == IF a <= b THEN a ELSE b
Range(q) == {q[i] : i \in DOMAIN q}

\* JavaScript truthiness of a number-or-null field (null and 0 are falsy).
Truthy(x) == x # Null /\ Val(x) # 0

\* exercise.phases[i] with the source's 0-based index; HasPhase is false where
\* the source reads undefined.
HasPhase(ex, i) == i >= 0 /\ i < Len(EXERCISES[ex])
PhaseAt(ex, i) == EXERCISES[ex][i + 1]

RECURSIVE SumDurations(_, _)
SumDurations(ex, n) ==
  IF n = 0 THEN 0 ELSE SumDurations(ex, n - 1) + EXERCISES[ex][n].duration

\* Length of one full cycle of an exercise, in ms.
CycleMs(ex) == SumDurations(ex, Len(EXERCISES[ex]))

\* Smallest handle not in use (only equality of handles matters).
FreshId(used) == CHOOSE i \in 1..(Cardinality(used) + 1) : i \notin used

\* ------------------------------------------------------------------- state
VARIABLES
  now,                 \* performance.now(), ms
  visible,             \* document.visibilityState = 'visible'
  currentExercise, sessionDuration, isRunning, currentPhaseIndex, cycleCount,
  animationFrameId, backgroundTimerId, phaseStartTime, sessionStartTime,
  pausedTimeRemaining, lastPhaseName,
  mediaSessionReady,   \* the lock-screen play/pause handlers are installed
  displayedCycleCount, \* the number shown by cycleCountEl ("N cycles")
  soundEnabled,        \* the cue sounds are switched on
  preferences,         \* localStorage: whether it can be used, and the strings
                       \* under the application's three keys (Null: no entry)
  listenersReady,      \* init ran to its end: the controls' handlers are bound
  ranWhileStopped,     \* the last step was a frame or timer callback that
                       \* ran while isRunning was false
  projection,          \* a sample of the render projector: the phase and the
                       \* progress handed to updateCircleScale, with the eased
                       \* progress and the scale it computed (Null: none taken)
  wake,                \* the screen wake lock and its fallbacks (see NoWake)
  tone,                \* the phase tone and the audio context (see NoTone)
  selection,           \* the last selection made on a button (Null: none observed)
  timeRemainingEl,     \* a sample of timeRemainingEl.textContent as updateTimeRemaining writes it (Null: none taken)
  pendingFrames,       \* requestAnimationFrame handles not yet run or cancelled,
                       \* in the order they were requested (the order they run in)
  pendingTimers,       \* setTimeout records not yet run or cleared
  \* observations of what the engine has emitted and done (history)
  lifecycle,           \* "idle" | "running" | "paused" | "complete"
  lastStart,           \* how the last start() found the engine: "fresh",
                       \* "resume" (paused), "restart" (complete); "none" when idle
  completeCount,       \* complete transitions since the last reset
  cuesThisPhase,       \* cues emitted since phaseStartTime was last set
  evalsThisPhase,      \* runAnimation evaluations since phaseStartTime was set
  lastEvaluation,      \* who evaluated the scheduler last: "none" | "fine"
                       \* (runAnimation) | "coarse" (the timer callback)
  missedCue,           \* a phase was left by an advance without its cue
  phaseElapsedAtPause, \* now - phaseStartTime sampled by the last pause
  evaluatedNow,        \* a scheduler evaluation ran at the current instant
  lateAdvance,         \* a phase advance ran after the phase's duration
  overdue,             \* the clock passed an instant at which a callback was due
  roundTrip,           \* 0: never hidden, 1: hidden, 2: hidden and shown again
  uninterrupted        \* the run is observed as one uninterrupted run (never
                       \* paused or reset); the four fields above are recorded
                       \* only while this holds

vars == << now, visible, displayedCycleCount, currentExercise,
          sessionDuration, isRunning,
           currentPhaseIndex, cycleCount, animationFrameId, backgroundTimerId,
           phaseStartTime, sessionStartTime, pausedTimeRemaining, lastPhaseName,
           mediaSessionReady, pendingFrames, pendingTimers, lifecycle,
           lastStart, completeCount, cuesThisPhase, evalsThisPhase, lastEvaluation,
           missedCue, phaseElapsedAtPause, evaluatedNow, lateAdvance, overdue, roundTrip, uninterrupted,
           soundEnabled, preferences, listenersReady, ranWhileStopped,
           projection, wake, tone, selection, timeRemainingEl >>

\* The engine's state as one record, so that a handler's nested calls compose.
St ==
  [ currentExercise |-> currentExercise, sessionDuration |-> sessionDuration,
    isRunning |-> isRunning, currentPhaseIndex |-> currentPhaseIndex,
    cycleCount |-> cycleCount, animationFrameId |-> animationFrameId,
    backgroundTimerId |-> backgroundTimerId, phaseStartTime |-> phaseStartTime,
    sessionStartTime |-> sessionStartTime,
    pausedTimeRemaining |-> pausedTimeRemaining, lastPhaseName |-> lastPhaseName,
    mediaSessionReady |-> mediaSessionReady, pendingFrames |-> pendingFrames,
    pendingTimers |-> pendingTimers, lifecycle |-> lifecycle,
    lastStart |-> lastStart,
    completeCount |-> completeCount, cuesThisPhase |-> cuesThisPhase,
    displayedCycleCount |-> displayedCycleCount,
    evalsThisPhase |-> evalsThisPhase, lastEvaluation |-> lastEvaluation,
    missedCue |-> missedCue, phaseElapsedAtPause |-> phaseElapsedAtPause,
    evaluatedNow |-> evaluatedNow, lateAdvance |-> lateAdvance,
    overdue |-> overdue, roundTrip |-> roundTrip,
    uninterrupted |-> uninterrupted,
    soundEnabled |-> soundEnabled, preferences |-> preferences,
    listenersReady |-> listenersReady,
    ranWhileStopped |-> FALSE ]   \* recorded by the callbacks, per step

Install(s) ==
  /\ currentExercise' = s.currentExercise
  /\ sessionDuration' = s.sessionDuration
  /\ isRunning' = s.isRunning
  /\ currentPhaseIndex' = s.currentPhaseIndex
  /\ cycleCount' = s.cycleCount
  /\ animationFrameId' = s.animationFrameId
  /\ backgroundTimerId' = s.backgroundTimerId
  /\ phaseStartTime' = s.phaseStartTime
  /\ sessionStartTime' = s.sessionStartTime
  /\ pausedTimeRemaining' = s.pausedTimeRemaining
  /\ lastPhaseName' = s.lastPhaseName
  /\ mediaSessionReady' = s.mediaSessionReady
  /\ pendingFrames' = s.pendingFrames
  /\ pendingTimers' = s.pendingTimers
  /\ lifecycle' = s.lifecycle
  /\ lastStart' = s.lastStart
  /\ completeCount' = s.completeCount
  /\ cuesThisPhase' = s.cuesThisPhase
  /\ displayedCycleCount' = s.displayedCycleCount
  /\ evalsThisPhase' = s.evalsThisPhase
  /\ lastEvaluation' = s.lastEvaluation
  /\ missedCue' = s.missedCue
  /\ phaseElapsedAtPause' = s.phaseElapsedAtPause
  /\ evaluatedNow' = s.evaluatedNow
  /\ lateAdvance' = s.lateAdvance
  /\ overdue' = s.overdue
  /\ roundTrip' = s.roundTrip
  /\ uninterrupted' = s.uninterrupted
  /\ soundEnabled' = s.soundEnabled
  /\ preferences' = s.preferences
  /\ listenersReady' = s.listenersReady
  /\ ranWhileStopped' = s.ranWhileStopped

\* Bounds of the model: a step that would exceed them is not taken.
WithinBounds(s) ==
  /\ Len(s.pendingFrames) <= MaxPendingFrames
  /\ s.completeCount <= MaxCompletions

\* The engine's handlers are observed without the projector's samples.
Commit(s) ==
  WithinBounds(s) /\ Install(s) /\ UNCHANGED << projection, wake, tone, selection, timeRemainingEl >>

\* A number-or-null field used in arithmetic (null coerces to 0).
Num(x) == IF x = Null THEN 0 ELSE Val(x)

\* ------------------------------------------------------------------ engine
\* Math.min(elapsed / phase.duration, 1), in thousandths (rounded down).
Progress(elapsed, duration) == Min((elapsed * 1000) \div duration, 1000)

\* cycleCountEl.textContent = cycleCount === 1 ? '1 cycle' : `${cycleCount} cycles`
updateCycleCount(s) == [s EXCEPT !.displayedCycleCount = s.cycleCount]

\* Mutant of SessionOver: the test does not require a bounded session.
SessionOver_IgnoresUnbounded(s, t) ==
  t - Num(s.sessionStartTime) >= s.sessionDuration * 1000

\* (now - sessionStartTime) / 1000 >= sessionDuration
SessionOver(s, t) ==
  s.sessionDuration > 0 /\ t - Num(s.sessionStartTime) >= s.sessionDuration * 1000

\* Mutant of onPhaseChange: the cue is emitted on every call.
onPhaseChange_NoDedupe(s, phaseName) ==
  [s EXCEPT !.lastPhaseName = Some(phaseName),
            !.cuesThisPhase = Min(@ + 1, MaxCues)]

\* if (phaseName === lastPhaseName) return; lastPhaseName = phaseName; tone.
onPhaseChange(s, phaseName) ==
  IF s.lastPhaseName = Some(phaseName) THEN s
  ELSE [s EXCEPT !.lastPhaseName = Some(phaseName),
                 !.cuesThisPhase = Min(@ + 1, MaxCues)]

clearBackgroundTimer(s) ==
  IF s.backgroundTimerId # 0
  THEN [s EXCEPT !.pendingTimers = {tm \in @ : tm.id # s.backgroundTimerId},
                 !.backgroundTimerId = 0]
  ELSE s

\* if (animationFrameId) { cancelAnimationFrame(animationFrameId); animationFrameId = null; }
cancelFrame(s) ==
  IF s.animationFrameId # 0
  THEN [s EXCEPT !.pendingFrames =
                    SelectSeq(@, LAMBDA id : id # s.animationFrameId),
                 !.animationFrameId = 0]
  ELSE s

\* animationFrameId = requestAnimationFrame(runAnimation)
requestFrame(s) ==
  LET id == FreshId(Range(s.pendingFrames))
  IN [s EXCEPT !.pendingFrames = Append(@, id), !.animationFrameId = id]

\* Mutant of completeSession: isRunning is left set.
completeSession_StillRunning(s) ==
  LET s1 == cancelFrame(clearBackgroundTimer(s))
  IN [s1 EXCEPT !.lifecycle = "complete", !.completeCount = @ + 1]

completeSession(s) ==
  LET s1 == cancelFrame(clearBackgroundTimer([s EXCEPT !.isRunning = FALSE]))
  IN [s1 EXCEPT !.lifecycle = "complete", !.completeCount = @ + 1]

\* Mutant of advanceInFrame: an evaluation that comes after the following
\* phase has elapsed too steps over that phase.
advanceInFrame_CatchUp(s, t) ==
  LET n == Len(EXERCISES[s.currentExercise])
      d == PhaseAt(s.currentExercise, s.currentPhaseIndex).duration
      next == (s.currentPhaseIndex + 1) % n
      steps == IF t - Num(s.phaseStartTime)
                    >= d + PhaseAt(s.currentExercise, next).duration
               THEN 2 ELSE 1
      cycles == (s.currentPhaseIndex + steps) \div n
  IN [s EXCEPT !.currentPhaseIndex = (@ + steps) % n,
               !.cycleCount = @ + cycles,
               !.displayedCycleCount = IF cycles > 0 THEN s.cycleCount + cycles
                                       ELSE @,
               !.phaseStartTime = Some(t),
               !.lastPhaseName = Null,
               !.missedCue = @ \/ s.cuesThisPhase = 0,
               !.cuesThisPhase = 0,
               !.evalsThisPhase = 0,
               !.lateAdvance = @ \/ (s.uninterrupted /\ t - Num(s.phaseStartTime) > d)]

\* Mutant of advanceInFrame: the wrap to phase 0 does not count a cycle.
advanceInFrame_NoCycleCount(s, t) ==
  LET n == Len(EXERCISES[s.currentExercise])
      d == PhaseAt(s.currentExercise, s.currentPhaseIndex).duration
      wrap == s.currentPhaseIndex + 1 >= n
  IN [s EXCEPT !.currentPhaseIndex = IF wrap THEN 0 ELSE @ + 1,
               !.displayedCycleCount = IF wrap THEN s.cycleCount ELSE @,
               !.phaseStartTime = Some(t),
               !.lastPhaseName = Null,
               !.missedCue = @ \/ s.cuesThisPhase = 0,
               !.cuesThisPhase = 0,
               !.evalsThisPhase = 0,
               !.lateAdvance = @ \/ (s.uninterrupted /\ t - Num(s.phaseStartTime) > d)]

\* The phase advance of runAnimation (app.js:1785-1796) at time t.
advanceInFrame(s, t) ==
  LET n == Len(EXERCISES[s.currentExercise])
      d == PhaseAt(s.currentExercise, s.currentPhaseIndex).duration
      wrap == s.currentPhaseIndex + 1 >= n
  IN [s EXCEPT !.currentPhaseIndex = IF wrap THEN 0 ELSE @ + 1,
               !.cycleCount = IF wrap THEN @ + 1 ELSE @,
               !.displayedCycleCount = IF wrap THEN s.cycleCount + 1 ELSE @,
               !.phaseStartTime = Some(t),
               !.lastPhaseName = Null,
               !.missedCue = @ \/ s.cuesThisPhase = 0,
               !.cuesThisPhase = 0,
               !.evalsThisPhase = 0,
               !.lateAdvance = @ \/ (s.uninterrupted /\ t - Num(s.phaseStartTime) > d)]

\* Mutant of runAnimation: the phase advance is evaluated before the session
\* completion check.
runAnimation_AdvanceFirst(s, t) ==
  IF ~s.isRunning THEN s
  ELSE IF ~HasPhase(s.currentExercise, s.currentPhaseIndex)
  THEN s
  ELSE
    LET phase == PhaseAt(s.currentExercise, s.currentPhaseIndex)
        elapsed == t - Num(s.phaseStartTime)
        progress == Progress(elapsed, phase.duration)
        s1 == [onPhaseChange(s, phase.name) EXCEPT
                 !.evaluatedNow = s.uninterrupted,
                 !.evalsThisPhase = Min(@ + 1, MaxEvaluations),
                 !.lastEvaluation = "fine"]
        s2 == IF progress >= 1000 THEN advanceInFrame(s1, t) ELSE s1
    IN IF SessionOver(s2, t) THEN completeSession(s2) ELSE requestFrame(s2)

\* Mutant of runAnimation: the evaluation does not test isRunning.
runAnimation_NoRunningTest(s, t) ==
  IF ~HasPhase(s.currentExercise, s.currentPhaseIndex)
  THEN s
  ELSE
    LET phase == PhaseAt(s.currentExercise, s.currentPhaseIndex)
        elapsed == t - Num(s.phaseStartTime)
        progress == Progress(elapsed, phase.duration)
        s1 == [onPhaseChange(s, phase.name) EXCEPT
                 !.evaluatedNow = s.uninterrupted,
                 !.evalsThisPhase = Min(@ + 1, MaxEvaluations),
                 !.lastEvaluation = "fine"]
    IN IF SessionOver(s1, t) THEN completeSession(s1)
       ELSE requestFrame(IF progress >= 1000 THEN advanceInFrame(s1, t) ELSE s1)

runAnimation(s, t) ==
  IF ~s.isRunning THEN s
  ELSE IF ~HasPhase(s.currentExercise, s.currentPhaseIndex)
  THEN s   \* phase is undefined: reading phase.duration throws, the call ends
  ELSE
    LET phase == PhaseAt(s.currentExercise, s.currentPhaseIndex)
        elapsed == t - Num(s.phaseStartTime)
        progress == Progress(elapsed, phase.duration)
        s1 == [onPhaseChange(s, phase.name) EXCEPT
                 !.evaluatedNow = s.uninterrupted,
                 !.evalsThisPhase = Min(@ + 1, MaxEvaluations),
                 !.lastEvaluation = "fine"]
    IN IF SessionOver(s1, t) THEN completeSession(s1)
       ELSE requestFrame(IF progress >= 1000 THEN advanceInFrame(s1, t) ELSE s1)

\* Mutant of scheduleBackgroundPhase: the delay has no minimum.
scheduleBackgroundPhase_NoMinimum(s, t) ==
  IF ~s.isRunning THEN s
  ELSE
    LET s1 == clearBackgroundTimer(s)
    IN IF ~HasPhase(s.currentExercise, s.currentPhaseIndex)
       THEN s1
       ELSE
         LET phase == PhaseAt(s.currentExercise, s.currentPhaseIndex)
             elapsed == t - Num(s.phaseStartTime)
             remaining == Max(0, phase.duration - elapsed)
             id == FreshId({tm.id : tm \in s1.pendingTimers})
         IN [s1 EXCEPT !.pendingTimers =
                          @ \cup {[id |-> id, due |-> t + remaining,
                                   exercise |-> s.currentExercise]},
                       !.backgroundTimerId = id]

\* Mutant of scheduleBackgroundPhase: the elapsed time is measured from the
\* start of the session instead of the start of the phase.
scheduleBackgroundPhase_FromSessionStart(s, t) ==
  IF ~s.isRunning THEN s
  ELSE
    LET s1 == clearBackgroundTimer(s)
    IN IF ~HasPhase(s.currentExercise, s.currentPhaseIndex)
       THEN s1
       ELSE
         LET phase == PhaseAt(s.currentExercise, s.currentPhaseIndex)
             elapsed == t - Num(s.sessionStartTime)
             remaining == Max(MinimumDelayMs, phase.duration - elapsed)
             id == FreshId({tm.id : tm \in s1.pendingTimers})
         IN [s1 EXCEPT !.pendingTimers =
                          @ \cup {[id |-> id, due |-> t + remaining,
                                   exercise |-> s.currentExercise]},
                       !.backgroundTimerId = id]

scheduleBackgroundPhase(s, t) ==
  IF ~s.isRunning THEN s
  ELSE
    LET s1 == clearBackgroundTimer(s)
    IN IF ~HasPhase(s.currentExercise, s.currentPhaseIndex)
       THEN s1   \* phase is undefined: reading phase.duration throws
       ELSE
         LET phase == PhaseAt(s.currentExercise, s.currentPhaseIndex)
             elapsed == t - Num(s.phaseStartTime)
             remaining == Max(MinimumDelayMs, phase.duration - elapsed)
             id == FreshId({tm.id : tm \in s1.pendingTimers})
         IN [s1 EXCEPT !.pendingTimers =
                          @ \cup {[id |-> id, due |-> t + remaining,
                                   exercise |-> s.currentExercise]},
                       !.backgroundTimerId = id]

\* Mutant of advanceInTimer: the wrap to phase 0 does not count a cycle.
advanceInTimer_NoCycleCount(s, ex, t) ==
  LET n == Len(EXERCISES[ex])
      wrap == s.currentPhaseIndex + 1 >= n
      next == IF wrap THEN 0 ELSE s.currentPhaseIndex + 1
      d == PhaseAt(ex, s.currentPhaseIndex).duration
      s1 == [s EXCEPT !.currentPhaseIndex = next,
                      !.phaseStartTime = Some(t),
                      !.lastPhaseName = Null,
                      !.missedCue = @ \/ s.cuesThisPhase = 0,
                      !.cuesThisPhase = 0,
                      !.evalsThisPhase = 0,
                      !.lateAdvance =
                         @ \/ (s.uninterrupted /\ t - Num(s.phaseStartTime) > d)]
  IN onPhaseChange(s1, PhaseAt(ex, next).name)

\* The phase advance of the timer callback (app.js:1091-1102) at time t; ex is
\* the exercise the callback's closure captured when the timer was armed.
advanceInTimer(s, ex, t) ==
  LET n == Len(EXERCISES[ex])
      wrap == s.currentPhaseIndex + 1 >= n
      next == IF wrap THEN 0 ELSE s.currentPhaseIndex + 1
      d == PhaseAt(ex, s.currentPhaseIndex).duration
      s1 == [s EXCEPT !.currentPhaseIndex = next,
                      !.cycleCount = IF wrap THEN @ + 1 ELSE @,
                      !.phaseStartTime = Some(t),
                      !.lastPhaseName = Null,
                      !.missedCue = @ \/ s.cuesThisPhase = 0,
                      !.cuesThisPhase = 0,
                      !.evalsThisPhase = 0,
                      !.lateAdvance =
                         @ \/ (s.uninterrupted /\ t - Num(s.phaseStartTime) > d)]
  IN onPhaseChange(s1, PhaseAt(ex, next).name)

\* The setTimeout callback armed by scheduleBackgroundPhase (app.js:1076-1106).
backgroundTimerCallback(s, tm, t) ==
  LET s0 == [s EXCEPT !.pendingTimers = @ \ {tm}, !.backgroundTimerId = 0]
  IN IF ~s0.isRunning THEN s0
     ELSE LET s1 == [s0 EXCEPT !.evaluatedNow = s.uninterrupted,
                               !.lastEvaluation = "coarse"]
          IN IF SessionOver(s1, t) THEN completeSession(s1)
             ELSE scheduleBackgroundPhase(advanceInTimer(s1, tm.exercise, t), t)

\* Mutant of anchorSession: the resume anchors the session at the remaining
\* time instead of the elapsed time.
anchorSession_RemainingAsElapsed(s, t) ==
  IF s.pausedTimeRemaining # Null /\ s.sessionDuration > 0
  THEN [s EXCEPT !.sessionStartTime = Some(t - Val(s.pausedTimeRemaining)),
                 !.pausedTimeRemaining = Null]
  ELSE IF ~Truthy(s.sessionStartTime)
  THEN [s EXCEPT !.sessionStartTime = Some(t)]
  ELSE s

\* The session-clock anchoring of startSession (app.js:1655-1660).
anchorSession(s, t) ==
  IF s.pausedTimeRemaining # Null /\ s.sessionDuration > 0
  THEN [s EXCEPT !.sessionStartTime =
                    Some(t - (s.sessionDuration * 1000
                              - Val(s.pausedTimeRemaining))),
                 !.pausedTimeRemaining = Null]
  ELSE IF ~Truthy(s.sessionStartTime)
  THEN [s EXCEPT !.sessionStartTime = Some(t)]
  ELSE s

startSession(s, t) ==
  LET s1 == [s EXCEPT !.isRunning = TRUE,
                      !.lastPhaseName = Null,
                      !.mediaSessionReady = TRUE,
                      !.phaseStartTime = Some(t),
                      !.lifecycle = "running",
                      !.lastStart = CASE s.lifecycle = "idle" -> "fresh"
                                      [] s.lifecycle = "paused" -> "resume"
                                      [] OTHER -> "restart",
                      !.cuesThisPhase = 0,
                      !.evalsThisPhase = 0,
                      !.phaseElapsedAtPause = 0,
                      !.ranWhileStopped = FALSE]
  IN runAnimation(anchorSession(s1, t), t)

\* What the platform calls of startSession do (app.js:1641-1650): each of
\* the wake-lock request, the audio keep-alive and the media-session setup
\* succeeds or fails the way its API fails.  requestWakeLock is an async
\* function, so its failure is a rejected promise; the audio calls fail inside
\* try/catch blocks or as a rejected play() promise with a catch handler; the
\* media-session calls are synchronous and fail by throwing.
Outcomes == {"ok", "fails"}
Environments == [wakeLock : Outcomes, audio : Outcomes, mediaSession : Outcomes]

\* startSession in the environment env.  A throw of setupMediaSession is not
\* caught in startSession: the call ends there, after isRunning = true and
\* lastPhaseName = null (app.js:1631-1635) and before the timestamps and
\* runAnimation (app.js:1652-1662).
startSessionIn(s, t, env) ==
  IF env.mediaSession = "fails"
  THEN [s EXCEPT !.isRunning = TRUE,
                 !.lastPhaseName = Null,
                 !.lifecycle = "running",
                 !.evaluatedNow = FALSE,
                 !.uninterrupted = FALSE]
  ELSE startSession(s, t)

\* Mutant of pauseSession: the remaining time is snapshotted without the
\* clamp at 0.
pauseSession_NoClamp(s, t) ==
  LET s1 == clearBackgroundTimer([s EXCEPT !.isRunning = FALSE])
      s2 == IF s1.sessionDuration > 0 /\ Truthy(s1.sessionStartTime)
            THEN [s1 EXCEPT !.pausedTimeRemaining =
                    Some(s1.sessionDuration * 1000
                         - (t - Val(s1.sessionStartTime)))]
            ELSE s1
      s3 == cancelFrame(s2)
  IN [s3 EXCEPT !.lifecycle = "paused",
                !.phaseElapsedAtPause = t - Num(s.phaseStartTime),
                !.evaluatedNow = FALSE,
                !.uninterrupted = FALSE,
                !.lateAdvance = FALSE, !.overdue = FALSE, !.roundTrip = 0]

pauseSession(s, t) ==
  LET s1 == clearBackgroundTimer([s EXCEPT !.isRunning = FALSE])
      s2 == IF s1.sessionDuration > 0 /\ Truthy(s1.sessionStartTime)
            THEN [s1 EXCEPT !.pausedTimeRemaining =
                    Some(Max(0, s1.sessionDuration * 1000
                                - (t - Val(s1.sessionStartTime))))]
            ELSE s1
      s3 == cancelFrame(s2)
  IN [s3 EXCEPT !.lifecycle = "paused",
                !.phaseElapsedAtPause = t - Num(s.phaseStartTime),
                !.evaluatedNow = FALSE,
                !.uninterrupted = FALSE,
                !.lateAdvance = FALSE, !.overdue = FALSE, !.roundTrip = 0]

\* Mutant of resetSession: the cycle count is kept.
resetSession_KeepsCycleCount(s) ==
  LET s1 == [s EXCEPT !.isRunning = FALSE,
                      !.currentPhaseIndex = 0,
                      !.phaseStartTime = Null,
                      !.sessionStartTime = Null,
                      !.pausedTimeRemaining = Null,
                      !.lastPhaseName = Null]
      s2 == updateCycleCount(cancelFrame(clearBackgroundTimer(s1)))
  IN [s2 EXCEPT !.lifecycle = "idle", !.lastStart = "none",
                !.completeCount = 0,
                !.cuesThisPhase = 0, !.evalsThisPhase = 0,
                !.lastEvaluation = "none", !.missedCue = FALSE,
                !.phaseElapsedAtPause = 0, !.evaluatedNow = FALSE,
                !.uninterrupted = FALSE,
                !.lateAdvance = FALSE, !.overdue = FALSE, !.roundTrip = 0]

resetSession(s) ==
  LET s1 == [s EXCEPT !.isRunning = FALSE,
                      !.currentPhaseIndex = 0,
                      !.cycleCount = 0,
                      !.phaseStartTime = Null,
                      !.sessionStartTime = Null,
                      !.pausedTimeRemaining = Null,
                      !.lastPhaseName = Null]
      s2 == updateCycleCount(cancelFrame(clearBackgroundTimer(s1)))
  IN [s2 EXCEPT !.lifecycle = "idle", !.lastStart = "none",
                !.completeCount = 0,
                !.cuesThisPhase = 0, !.evalsThisPhase = 0,
                !.lastEvaluation = "none", !.missedCue = FALSE,
                !.phaseElapsedAtPause = 0, !.evaluatedNow = FALSE,
                !.uninterrupted = FALSE,
                !.lateAdvance = FALSE, !.overdue = FALSE, !.roundTrip = 0,
                !.ranWhileStopped = FALSE]

\* Mutant of onHidden: going hidden restarts the phase clock.
onHidden_RestartsPhase(s, t) ==
  IF s.isRunning
  THEN scheduleBackgroundPhase(
         cancelFrame([s EXCEPT !.phaseStartTime = Some(t)]), t)
  ELSE s

\* visibilitychange with document.visibilityState = 'hidden'
onHidden(s, t) ==
  IF s.isRunning
  THEN LET elapsed == t - Num(s.phaseStartTime)
           midPhase ==
             /\ HasPhase(s.currentExercise, s.currentPhaseIndex)
             /\ elapsed > 0
             /\ elapsed < PhaseAt(s.currentExercise, s.currentPhaseIndex).duration
       IN [scheduleBackgroundPhase(cancelFrame(s), t) EXCEPT
             !.roundTrip = IF s.uninterrupted /\ midPhase THEN Max(@, 1) ELSE @]
  ELSE s

\* visibilitychange with document.visibilityState = 'visible'
onVisible(s, t) ==
  LET s1 == clearBackgroundTimer(s)
  IN IF s1.isRunning
     THEN [runAnimation(updateCycleCount(s1), t) EXCEPT
             !.roundTrip = IF s.uninterrupted /\ s.roundTrip = 1 THEN 2 ELSE @]
     ELSE s1

\* ------------------------------------------------------------- wake lock
\* The wake lock as the application holds it (app.js:1176-1255):
\*   wakeLock          the variable: 0 (null) or the sentinel it refers to
\*   wakeLockInterval  the variable: 0 (null) or the keep-alive interval's id
\*   noSleepVideo      the fallback video element has been created
\*   playing           the fallback video is not paused
\*   held              the sentinels the platform holds (granted, not released)
\*   releasing         released sentinels whose 'release' event is not yet
\*                     dispatched
\*   intervals         the installed keep-alive intervals, each with the
\*                     instant of its next run
\*   awaitingRequest   requestWakeLock invocations suspended at
\*                     await navigator.wakeLock.request (app.js:1191)
\*   awaitingPlay      requestWakeLock invocations suspended at
\*                     await noSleepVideo.play() (app.js:1217)
\*   releaseTimers     the due instants of completeSession's delayed releases
NoWake ==
  [ wakeLock |-> 0, wakeLockInterval |-> 0, noSleepVideo |-> FALSE,
    playing |-> FALSE, held |-> {}, releasing |-> {}, intervals |-> {},
    awaitingRequest |-> 0, awaitingPlay |-> 0, releaseTimers |-> {} ]

WakeWithinBounds(w) ==
  /\ w.awaitingRequest + w.awaitingPlay <= MaxWakeCalls
  /\ Cardinality(w.held \cup w.releasing) <= MaxSentinels
  /\ Cardinality(w.intervals) <= MaxIntervals

\* The platform's next sentinel and the next interval id.
FreshSentinel(w) ==
  CHOOSE i \in 1..(MaxSentinels + 1) :
    /\ i \notin w.held \cup w.releasing
    /\ \A j \in 1..(i - 1) : j \in w.held \cup w.releasing

FreshInterval(w) ==
  CHOOSE i \in 1..(MaxIntervals + 1) :
    /\ i \notin {iv.id : iv \in w.intervals}
    /\ \A j \in 1..(i - 1) : j \in {iv.id : iv \in w.intervals}

\* if (wakeLockInterval) { clearInterval(wakeLockInterval); ... = null }
clearKeepAlive(w) ==
  IF w.wakeLockInterval # 0
  THEN [w EXCEPT !.intervals = {iv \in @ : iv.id # w.wakeLockInterval},
                 !.wakeLockInterval = 0]
  ELSE w

\* wakeLockInterval = setInterval(..., 5000) (app.js:1227-1236): the variable
\* is assigned without a look at the interval it may refer to.
setKeepAlive(w, t) ==
  LET id == FreshInterval(w)
  IN [w EXCEPT !.intervals = @ \cup {[id |-> id, due |-> t + KeepAliveMs]},
               !.wakeLockInterval = id]

\* requestWakeLock from the fallback video on (app.js:1208-1237): the video is
\* created if there is none; a paused video is played and the invocation
\* suspends at the await; then the keep-alive interval is installed.
playFallback(w, t) ==
  LET v == [w EXCEPT !.noSleepVideo = TRUE]
  IN IF ~v.playing
     THEN [v EXCEPT !.playing = TRUE, !.awaitingPlay = @ + 1]
     ELSE setKeepAlive(v, t)

\* requestWakeLock up to its first await (app.js:1180-1237), on a platform
\* with the Wake Lock API.
requestWakeLock(w, t) ==
  LET c == clearKeepAlive(w)
  IN IF c.wakeLock = 0
     THEN [c EXCEPT !.awaitingRequest = @ + 1]
     ELSE playFallback(c, t)

\* navigator.wakeLock.request settles (app.js:1191-1207): granted, the
\* sentinel is assigned to wakeLock and the 'release' listener is added;
\* rejected, the error is caught.  The invocation goes on with the video.
requestSettles(w, t, granted) ==
  LET r == [w EXCEPT !.awaitingRequest = @ - 1]
      id == FreshSentinel(r)
      a == IF granted
           THEN [r EXCEPT !.wakeLock = id, !.held = @ \cup {id}]
           ELSE r
  IN playFallback(a, t)

\* noSleepVideo.play() settles (app.js:1217-1236): resolved or rejected, the
\* invocation goes on to install the keep-alive interval.
playSettles(w, t) == setKeepAlive([w EXCEPT !.awaitingPlay = @ - 1], t)

\* releaseWakeLock (app.js:1239-1255).
releaseWakeLock(w) ==
  LET c == clearKeepAlive(w)
      r == IF c.wakeLock # 0
           THEN [c EXCEPT !.held = @ \ {c.wakeLock},
                          !.releasing = @ \cup {c.wakeLock},
                          !.wakeLock = 0]
           ELSE c
  IN IF r.noSleepVideo THEN [r EXCEPT !.playing = FALSE] ELSE r

\* The sentinel's 'release' listener (app.js:1194-1201), run over the engine
\* state s.
onRelease(w, s, t, id) ==
  LET r == [w EXCEPT !.releasing = @ \ {id}, !.wakeLock = 0]
  IN IF Truthy(s.sessionStartTime) \/ s.isRunning
     THEN requestWakeLock(r, t)
     ELSE r

\* The keep-alive interval's callback (app.js:1227-1236), run over the engine
\* state s; the interval iv runs again a period later.
keepAlive(w, s, t, iv) ==
  LET a == [w EXCEPT !.intervals =
                       (@ \ {iv}) \cup {[iv EXCEPT !.due = @ + KeepAliveMs]}]
      inSession == s.isRunning \/ Truthy(s.sessionStartTime)
      b == IF a.noSleepVideo /\ ~a.playing /\ inSession
           THEN [a EXCEPT !.playing = TRUE]
           ELSE a
  IN IF b.wakeLock = 0 /\ inSession THEN requestWakeLock(b, t) ELSE b

\* completeSession's setTimeout(function () { releaseWakeLock(); ... }, 2000)
\* (app.js:1735-1740), armed when the engine went from s to s2 at t.
armDelayedRelease(w, s, s2, t) ==
  IF s2.completeCount > s.completeCount
  THEN [w EXCEPT !.releaseTimers = @ \cup {t + ReleaseDelayMs}]
  ELSE w

\* ------------------------------------------------------------ phase tone
\* The phase tone as the application holds it (app.js:884-890, 1312-1408):
\*   audioContext     "none" (null), or the context's state: "suspended"
\*                    (a resume() is pending) or "running"
\*   currentTone      Null, or the oscillator it refers to
\*   activePhaseName  Null, or the phase name
\*   oscillators      the oscillators started and not yet ended, each with its
\*                    phase name and the instant it stops
\*   deferred         the deferred starts armed by playPhaseTone, each with the
\*                    phase name, the duration and the instant it is due
\*   started          the last handler started an oscillator
NoTone ==
  [ audioContext |-> "none", currentTone |-> Null, activePhaseName |-> Null,
    oscillators |-> {}, deferred |-> {}, started |-> FALSE ]

ToneWithinBounds(a) ==
  Cardinality(a.oscillators) <= MaxOscillators /\ Cardinality(a.deferred) <= 2

\* initAudio and the resume() of ensureAudioReady (app.js:1118-1141): the
\* context is created in the state the platform gives it.
ensureAudioReady(a, created) ==
  IF a.audioContext = "none" THEN [a EXCEPT !.audioContext = created] ELSE a

\* stopCurrentTone (app.js:1312-1326): the current oscillator is faded out and
\* stops 0.25 s later; without a current tone nothing is assigned.
stopCurrentTone(a, t) ==
  IF a.currentTone # Null
  THEN LET osc == Val(a.currentTone)
       IN [a EXCEPT !.oscillators =
                       IF osc \in @
                       THEN (@ \ {osc}) \cup {[osc EXCEPT !.end = t + StopAfterMs]}
                       ELSE @,
                    !.currentTone = Null,
                    !.activePhaseName = Null]
  ELSE a

\* actuallyPlayPhaseTone (app.js:1356-1408).
actuallyPlayPhaseTone(a, t, durationMs, phaseName) ==
  LET osc == [phaseName |-> phaseName, end |-> t + durationMs + ToneMarginMs]
  IN [a EXCEPT !.oscillators = @ \cup {osc},
               !.currentTone = Some(osc),
               !.started = TRUE]

\* playPhaseTone (app.js:1329-1354).
playPhaseTone(a, t, sound, durationMs, phaseName) ==
  IF ~sound \/ a.audioContext = "none" THEN a
  ELSE IF a.activePhaseName = Some(phaseName) /\ a.currentTone # Null THEN a
  ELSE
    LET a1 == [stopCurrentTone(a, t) EXCEPT !.activePhaseName = Some(phaseName)]
    IN IF a1.audioContext = "running"
       THEN actuallyPlayPhaseTone(a1, t, durationMs, phaseName)
       ELSE [a1 EXCEPT !.deferred =
                         @ \cup {[phaseName |-> phaseName,
                                  durationMs |-> durationMs,
                                  due |-> t + DeferredStartMs]}]

\* The deferred start's callback (app.js:1348-1352).
deferredStart(a, t, df) ==
  LET a1 == [a EXCEPT !.deferred = @ \ {df}]
  IN IF a1.audioContext = "running" /\ a1.activePhaseName = Some(df.phaseName)
     THEN actuallyPlayPhaseTone(a1, t, df.durationMs, df.phaseName)
     ELSE a1

\* oscillator.onended (app.js:1399-1404).
onended(a, osc) ==
  LET a1 == [a EXCEPT !.oscillators = @ \ {osc}]
  IN IF a1.currentTone # Null /\ Val(a1.currentTone).phaseName = osc.phaseName
     THEN [a1 EXCEPT !.currentTone = Null, !.activePhaseName = Null]
     ELSE a1

\* The tone calls of a scheduler evaluation that took the engine from s to s2
\* at t: onPhaseChange's playPhaseTone (app.js:1599-1608) when the evaluation
\* emitted a cue for the phase of s, and completeSession's stopCurrentTone
\* (app.js:1733).
evaluationTone(a, s, s2, t) ==
  LET a1 == IF /\ s.isRunning /\ HasPhase(s.currentExercise, s.currentPhaseIndex)
               /\ s.lastPhaseName #
                    Some(PhaseAt(s.currentExercise, s.currentPhaseIndex).name)
            THEN LET phase == PhaseAt(s.currentExercise, s.currentPhaseIndex)
                 IN playPhaseTone(a, t, s.soundEnabled, phase.duration, phase.name)
            ELSE a
  IN IF s2.completeCount > s.completeCount THEN stopCurrentTone(a1, t) ELSE a1

\* ------------------------------------------------------- preference store
\* A string whose content is parsed or formatted is a sequence of characters.
DigitChars == << "0", "1", "2", "3", "4", "5", "6", "7", "8", "9" >>
IsDigit(c) == \E d \in 1..10 : DigitChars[d] = c
DigitValue(c) == (CHOOSE d \in 1..10 : DigitChars[d] = c) - 1

RECURSIVE NatToChars(_)
NatToChars(n) ==
  IF n < 10 THEN << DigitChars[n + 1] >>
  ELSE NatToChars(n \div 10) \o << DigitChars[(n % 10) + 1] >>

\* Number.prototype.toString of an integer (app.js:1488).
toString(n) == IF n < 0 THEN << "-" >> \o NatToChars(-n) ELSE NatToChars(n)

RECURSIVE TrimStart(_)
TrimStart(str) ==
  IF str # << >> /\ Head(str) = " " THEN TrimStart(Tail(str)) ELSE str

\* The digits at the start of str, as << number of digits, their value >>.
RECURSIVE LeadingDigits(_, _, _)
LeadingDigits(str, count, value) ==
  IF str # << >> /\ IsDigit(Head(str))
  THEN LeadingDigits(Tail(str), count + 1, value * 10 + DigitValue(Head(str)))
  ELSE << count, value >>

\* parseInt(str, 10) (app.js:1472, 1529): leading blanks are skipped, a sign is
\* read, then the digits up to the first other character; Null stands for
\* NaN (no digit read).
parseInt(str) ==
  LET t == TrimStart(str)
      signed == t # << >> /\ Head(t) \in {"-", "+"}
      body == IF signed THEN Tail(t) ELSE t
      d == LeadingDigits(body, 0, 0)
  IN IF d[1] = 0 THEN Null
     ELSE Some(IF signed /\ Head(t) = "-" THEN -d[2] ELSE d[2])

\* Boolean.prototype.toString (app.js:1489).
booleanToString(b) == IF b THEN "true" ELSE "false"

\* Names every object literal inherits from Object.prototype: EXERCISES[key]
\* is truthy for them although they are no exercise (app.js:838, 1465).
InheritedKeys == {"constructor", "toString", "valueOf", "hasOwnProperty"}
HasTruthyEntry(key) == key \in ExerciseIds \/ key \in InheritedKeys

\* localStorage cannot be used (getItem and setItem throw).
NoStore ==
  [available |-> FALSE, exercise |-> Null, duration |-> Null, sound |-> Null]

\* saveState (app.js:1485-1493): the three setItem calls; a throw is caught.
saveState(s) ==
  IF ~s.preferences.available THEN s
  ELSE [s EXCEPT !.preferences =
          [available |-> TRUE,
           exercise |-> Some(s.currentExercise),
           duration |-> Some(toString(s.sessionDuration)),
           sound |-> Some(booleanToString(s.soundEnabled))]]

\* loadState (app.js:1462-1483) as << state, an exception left the function >>.
\* The first getItem throws when the store cannot be used, before anything is
\* assigned; the catch block swallows it.
loadState_Uncaught(s) ==
  IF ~s.preferences.available THEN [state |-> s, threw |-> TRUE]
  ELSE [state |-> s, threw |-> FALSE]
loadState(s) ==
  LET p == s.preferences
      s1 == IF p.exercise # Null /\ Val(p.exercise) # ""
               /\ HasTruthyEntry(Val(p.exercise))
            THEN [s EXCEPT !.currentExercise = Val(p.exercise)] ELSE s
      s2 == IF p.duration # Null
            THEN [s1 EXCEPT !.sessionDuration = Val(parseInt(Val(p.duration)))]
            ELSE s1
      s3 == IF p.sound # Null
            THEN [s2 EXCEPT !.soundEnabled = (Val(p.sound) = "true")] ELSE s2
  IN [state |-> IF p.available THEN s3 ELSE s, threw |-> FALSE]

\* The state the script's declarations construct (app.js:899-912), over a
\* given content of the store.
Construction(p) ==
  [ currentExercise |-> "relaxing", sessionDuration |-> DefaultDuration,
    isRunning |-> FALSE, currentPhaseIndex |-> 0, cycleCount |-> 0,
    animationFrameId |-> 0, backgroundTimerId |-> 0, phaseStartTime |-> Null,
    sessionStartTime |-> Null, pausedTimeRemaining |-> Null,
    lastPhaseName |-> Null, mediaSessionReady |-> FALSE,
    pendingFrames |-> << >>, pendingTimers |-> {}, lifecycle |-> "idle",
    lastStart |-> "none", completeCount |-> 0, cuesThisPhase |-> 0,
    displayedCycleCount |-> 0, evalsThisPhase |-> 0,
    lastEvaluation |-> "none", missedCue |-> FALSE, phaseElapsedAtPause |-> 0,
    evaluatedNow |-> FALSE, lateAdvance |-> FALSE, overdue |-> FALSE,
    roundTrip |-> 0, uninterrupted |-> FALSE,
    soundEnabled |-> TRUE, preferences |-> p, listenersReady |-> FALSE,
    ranWhileStopped |-> FALSE ]

\* The data-duration attributes of the duration buttons.
DurationButtons == {toString(d) : d \in DurationChoices}

\* init (app.js:1455-1460): loadState, then setupEventListeners and the first
\* rendering; an exception out of loadState would end init before them.
init(s) ==
  LET r == loadState(s)
  IN IF r.threw THEN r.state
     ELSE updateCycleCount([r.state EXCEPT !.listenersReady = TRUE])

\* Mutant of selectExercise: the handler does not look at isRunning.
selectExercise_NoRunningTest(s, ex) ==
  IF ~HasTruthyEntry(ex) THEN s
  ELSE saveState([s EXCEPT !.currentExercise = ex])

\* The click handler of the exercise button with data-exercise = ex
\* (app.js:1515-1523).
selectExercise(s, ex) ==
  IF s.isRunning \/ ~HasTruthyEntry(ex) THEN s
  ELSE saveState([s EXCEPT !.currentExercise = ex])

\* The click handler of the duration button with data-duration = d
\* (app.js:1527-1533).
selectDuration(s, d) ==
  IF s.isRunning THEN s
  ELSE saveState([s EXCEPT !.sessionDuration = Val(parseInt(d))])

\* ----------------------------------------------------------------- actions
Init ==
  /\ now = TickMs
  /\ visible = TRUE
  /\ currentExercise = "relaxing"
  /\ sessionDuration = DefaultDuration
  /\ isRunning = FALSE
  /\ currentPhaseIndex = 0
  /\ cycleCount = 0
  /\ animationFrameId = 0
  /\ backgroundTimerId = 0
  /\ phaseStartTime = Null
  /\ sessionStartTime = Null
  /\ pausedTimeRemaining = Null
  /\ lastPhaseName = Null
  /\ mediaSessionReady = FALSE
  /\ pendingFrames = << >>
  /\ pendingTimers = {}
  /\ lifecycle = "idle"
  /\ lastStart = "none"
  /\ completeCount = 0
  /\ cuesThisPhase = 0
  /\ displayedCycleCount = 0
  /\ evalsThisPhase = 0
  /\ lastEvaluation = "none"
  /\ missedCue = FALSE
  /\ phaseElapsedAtPause = 0
  /\ evaluatedNow = FALSE
  /\ lateAdvance = FALSE
  /\ overdue = FALSE
  /\ roundTrip = 0
  /\ uninterrupted = FALSE
  /\ soundEnabled = TRUE
  /\ preferences = NoStore
  /\ listenersReady = TRUE
  /\ projection = Null
  /\ wake = NoWake
  /\ tone = NoTone
  /\ selection = Null
  /\ timeRemainingEl = Null
  /\ ranWhileStopped = FALSE

\* A driving callback is due at the current instant: an armed timer has reached
\* its delay, or a frame is pending in the foreground at a phase boundary.
CallbackDue ==
  \/ \E tm \in pendingTimers : tm.due <= now
  \/ /\ visible /\ pendingFrames # << >>
     /\ HasPhase(currentExercise, currentPhaseIndex)
     /\ now - Num(phaseStartTime) >=
          PhaseAt(currentExercise, currentPhaseIndex).duration

\* Instants at which something is due: an armed timer's delay, the end of the
\* current phase, the end of a bounded session.  The uninterrupted runs also
\* stop half a minimum delay before the end of the phase, where hiding the
\* page arms the timer for its minimum delay.
DueInstants ==
  {tm.due : tm \in pendingTimers}
  \cup (IF uninterrupted /\ isRunning
           /\ HasPhase(currentExercise, currentPhaseIndex)
        THEN {Num(phaseStartTime)
              + PhaseAt(currentExercise, currentPhaseIndex).duration
              - MinimumDelayMs \div 2}
        ELSE {})
  \cup (IF isRunning /\ HasPhase(currentExercise, currentPhaseIndex)
        THEN {Num(phaseStartTime)
              + PhaseAt(currentExercise, currentPhaseIndex).duration}
        ELSE {})
  \cup (IF isRunning /\ sessionDuration > 0
        THEN {Num(sessionStartTime) + sessionDuration * 1000}
        ELSE {})
  \cup wake.releaseTimers
  \cup {iv.due : iv \in wake.intervals}
  \cup {df.due : df \in tone.deferred}
  \cup {osc.end : osc \in tone.oscillators}

\* The instant the clock moves to next: the next grid point, or the first due
\* instant if one comes before it.  The clock stops at every due instant, so
\* a callback is late exactly when time passes while it is due.
NextInstants ==
  LET grid == ((now \div TickMs) + 1) * TickMs
      ahead == {grid} \cup {t \in DueInstants : t > now /\ t < grid}
  IN {t \in ahead : \A u \in ahead : t <= u}

\* Time passes, up to the instant maxT.  While the engine is idle it holds no
\* timestamp, so the passage of time only shifts the clock's origin: the clock
\* is advanced while a session is in progress (running, paused or complete).
Advance(maxT) ==
  /\ \E n \in NextInstants : n <= maxT /\ now' = n
  /\ evaluatedNow' = FALSE
  /\ ranWhileStopped' = FALSE
  /\ overdue' = (overdue \/ (uninterrupted /\ isRunning /\ CallbackDue))
  /\ UNCHANGED << visible, currentExercise, sessionDuration, isRunning,
                  currentPhaseIndex, cycleCount, animationFrameId,
                  backgroundTimerId, phaseStartTime, sessionStartTime,
                  pausedTimeRemaining, lastPhaseName, mediaSessionReady,
                  pendingFrames, pendingTimers, lifecycle, lastStart,
                  completeCount, cuesThisPhase, evalsThisPhase, lastEvaluation,
                  missedCue, phaseElapsedAtPause, displayedCycleCount,
                  lateAdvance, roundTrip, uninterrupted, soundEnabled,
                  preferences, listenersReady, projection, wake, tone, selection, timeRemainingEl >>

TickUntil(maxT) == lifecycle # "idle" /\ Advance(maxT)

Tick == TickUntil(MaxNow)

\* toggleSession from a tap on the start button or the circle (app.js:1622).
ToggleSession ==
  /\ visible /\ listenersReady
  /\ Commit(IF isRunning THEN pauseSession(St, now) ELSE startSession(St, now))
  /\ UNCHANGED << now, visible >>

\* Lock-screen 'play' action (app.js:1051-1053).
MediaPlay ==
  /\ mediaSessionReady
  /\ ~isRunning
  /\ Commit(startSession(St, now))
  /\ UNCHANGED << now, visible >>

\* Lock-screen 'pause' action (app.js:1054-1056).
MediaPause ==
  /\ mediaSessionReady
  /\ isRunning
  /\ Commit(pauseSession(St, now))
  /\ UNCHANGED << now, visible >>

\* toggleSession and the lock-screen 'play' action where the platform calls
\* of startSession may fail.
ToggleSessionIn ==
  /\ visible /\ listenersReady
  /\ \E env \in Environments :
       Commit(IF isRunning THEN pauseSession(St, now)
              ELSE startSessionIn(St, now, env))
  /\ UNCHANGED << now, visible >>

MediaPlayIn ==
  /\ mediaSessionReady
  /\ ~isRunning
  /\ \E env \in Environments : Commit(startSessionIn(St, now, env))
  /\ UNCHANGED << now, visible >>

\* Click on the reset button (app.js:1512).
ResetClick ==
  /\ visible /\ listenersReady
  /\ Commit(resetSession(St))
  /\ UNCHANGED << now, visible >>

\* Click on an exercise button (app.js:1514-1524).
SelectExercise ==
  /\ visible /\ listenersReady
  /\ \E ex \in ExerciseIds :
       Commit(selectExercise(St, ex))
  /\ UNCHANGED << now, visible >>

\* Click on a duration button (app.js:1526-1535).
SelectDuration ==
  /\ visible /\ listenersReady
  /\ \E d \in DurationButtons :
       Commit(selectDuration(St, d))
  /\ UNCHANGED << now, visible >>

\* The browser runs the oldest pending animation-frame callback (foreground
\* only; callbacks run in the order they were requested).
FrameCallback ==
  /\ visible
  /\ pendingFrames # << >>
  /\ Commit(runAnimation([St EXCEPT !.pendingFrames = Tail(@),
                                    !.ranWhileStopped = ~isRunning],
                        now))
  /\ UNCHANGED << now, visible >>

\* The browser runs the background timer's callback, at or after its delay.
TimerCallback ==
  /\ \E tm \in pendingTimers :
       /\ now >= tm.due
       /\ Commit(backgroundTimerCallback(
                   [St EXCEPT !.ranWhileStopped = ~isRunning], tm, now))
  /\ UNCHANGED << now, visible >>

\* The page goes to the background (app.js:1281-1289).
Hide ==
  /\ visible
  /\ visible' = FALSE
  /\ Commit(onHidden(St, now))
  /\ UNCHANGED now

\* The page returns to the foreground (app.js:1290-1308).
Show ==
  /\ ~visible
  /\ visible' = TRUE
  /\ Commit(onVisible(St, now))
  /\ UNCHANGED now

Next ==
  \/ Tick
  \/ ToggleSession
  \/ MediaPlay
  \/ MediaPause
  \/ ResetClick
  \/ SelectExercise
  \/ SelectDuration
  \/ FrameCallback
  \/ TimerCallback
  \/ Hide
  \/ Show

Spec == Init /\ [][Next]_vars

\* The program, kept in the foreground, on a platform whose wake-lock, audio
\* and media-session calls may fail during start().
TickFailing == TickUntil(MaxNowFailing)

NextFailing ==
  \/ TickFailing
  \/ ToggleSessionIn
  \/ MediaPlayIn
  \/ MediaPause
  \/ ResetClick
  \/ (lifecycle = "idle" /\ SelectDuration)
  \/ FrameCallback

SpecFailing == Init /\ [][NextFailing]_vars

\* Sessions of the default duration in which the exercise buttons are used:
\* long enough to reach every phase of every exercise.
TickSelection == TickUntil(MaxNowSelection)

NextSelection ==
  \/ TickSelection
  \/ ToggleSession
  \/ ResetClick
  \/ SelectExercise
  \/ FrameCallback
  \/ TimerCallback
  \/ Hide
  \/ Show

SpecSelection == Init /\ [][NextSelection]_vars

\* The frame loop's evaluation as a function of the clock sample: a running
\* session in its first phase, and a clock that may return any sample,
\* earlier ones included.
ClockSamples == {k * TickMs : k \in 0..MaxSamples}

InitProgress ==
  /\ now \in ClockSamples
  /\ visible = TRUE
  /\ currentExercise \in ExerciseIds
  /\ sessionDuration = 0
  /\ isRunning = TRUE
  /\ currentPhaseIndex = 0
  /\ cycleCount = 0
  /\ animationFrameId = 1
  /\ backgroundTimerId = 0
  /\ \E p \in ClockSamples :
       /\ p <= now
       /\ phaseStartTime = Some(p)
       /\ sessionStartTime = Some(p)
  /\ pausedTimeRemaining = Null
  /\ lastPhaseName = Null
  /\ mediaSessionReady = TRUE
  /\ displayedCycleCount = 0
  /\ pendingFrames = << 1 >>
  /\ pendingTimers = {}
  /\ lifecycle = "running"
  /\ lastStart = "fresh"
  /\ completeCount = 0
  /\ cuesThisPhase = 0
  /\ evalsThisPhase = 0
  /\ lastEvaluation = "none"
  /\ missedCue = FALSE
  /\ phaseElapsedAtPause = 0
  /\ evaluatedNow = FALSE
  /\ lateAdvance = FALSE
  /\ overdue = FALSE
  /\ roundTrip = 0
  /\ uninterrupted = FALSE
  /\ soundEnabled = TRUE
  /\ preferences = NoStore
  /\ listenersReady = TRUE
  /\ projection = Null
  /\ wake = NoWake
  /\ tone = NoTone
  /\ selection = Null
  /\ timeRemainingEl = Null
  /\ ranWhileStopped = FALSE

\* performance.now() returns a sample.
SampleClock ==
  /\ now' \in ClockSamples
  /\ UNCHANGED << visible, displayedCycleCount, currentExercise,
                  sessionDuration, isRunning, currentPhaseIndex, cycleCount,
                  animationFrameId, backgroundTimerId, phaseStartTime,
                  sessionStartTime, pausedTimeRemaining, lastPhaseName,
                  mediaSessionReady, pendingFrames, pendingTimers, lifecycle,
                  lastStart, completeCount, cuesThisPhase, evalsThisPhase,
                  lastEvaluation, missedCue, phaseElapsedAtPause, evaluatedNow,
                  lateAdvance, overdue, roundTrip, uninterrupted, soundEnabled,
                  preferences, listenersReady, ranWhileStopped, projection, wake, tone, selection, timeRemainingEl >>

NextProgress == SampleClock \/ FrameCallback

SpecProgress == InitProgress /\ [][NextProgress]_vars

\* One uninterrupted run: the user picks an exercise and a duration, starts
\* once and then leaves the controls alone; the page may be hidden and shown.
\* Its conformance to the ideal schedule is recorded (uninterrupted holds).
InitContinuous ==
  /\ now = TickMs
  /\ visible = TRUE
  /\ currentExercise = "relaxing"
  /\ sessionDuration = DefaultDuration
  /\ isRunning = FALSE
  /\ currentPhaseIndex = 0
  /\ cycleCount = 0
  /\ animationFrameId = 0
  /\ backgroundTimerId = 0
  /\ phaseStartTime = Null
  /\ sessionStartTime = Null
  /\ pausedTimeRemaining = Null
  /\ lastPhaseName = Null
  /\ mediaSessionReady = FALSE
  /\ pendingFrames = << >>
  /\ pendingTimers = {}
  /\ lifecycle = "idle"
  /\ lastStart = "none"
  /\ completeCount = 0
  /\ cuesThisPhase = 0
  /\ displayedCycleCount = 0
  /\ evalsThisPhase = 0
  /\ lastEvaluation = "none"
  /\ missedCue = FALSE
  /\ phaseElapsedAtPause = 0
  /\ evaluatedNow = FALSE
  /\ lateAdvance = FALSE
  /\ overdue = FALSE
  /\ roundTrip = 0
  /\ uninterrupted = TRUE
  /\ soundEnabled = TRUE
  /\ preferences = NoStore
  /\ listenersReady = TRUE
  /\ projection = Null
  /\ wake = NoWake
  /\ tone = NoTone
  /\ selection = Null
  /\ timeRemainingEl = Null
  /\ ranWhileStopped = FALSE

TickContinuous == TickUntil(MaxNowContinuous)

NextContinuous ==
  \/ TickContinuous
  \/ (lifecycle = "idle" /\ SelectExercise)
  \/ (lifecycle = "idle" /\ SelectDuration)
  \/ (lifecycle = "idle" /\ ToggleSession)
  \/ FrameCallback
  \/ TimerCallback
  \/ Hide
  \/ Show

SpecContinuous == InitContinuous /\ [][NextContinuous]_vars

\* Sessions under fair scheduling: time passes, a pending frame callback runs
\* while the page stays visible and an armed timer fires.  The user picks a
\* duration, starts, and may pause and resume from the lock screen; the page
\* is hidden and shown at any time.  A session is short and started early
\* enough for its end, and the end of the phase running then, to come before
\* the clock of the model stops, and the page is not hidden later than a
\* minimum timer delay before the clock stops.
LongestPhaseMs ==
  CHOOSE d \in {ph.duration : ph \in Range(EXERCISES.relaxing)} :
    \A ph \in Range(EXERCISES.relaxing) : ph.duration <= d
StartDeadline ==
  MaxNowFair - ShortSession * 1000 - LongestPhaseMs - MinimumDelayMs

StartsInTime == sessionDuration <= ShortSession /\ now <= StartDeadline

TickFair == TickUntil(MaxNowFair)

NextFair ==
  \/ TickFair
  \/ (lifecycle = "idle" /\ SelectDuration)
  \/ (~isRunning /\ StartsInTime /\ ToggleSession)
  \/ (StartsInTime /\ MediaPlay)
  \/ MediaPause
  \/ FrameCallback
  \/ TimerCallback
  \/ (now + MinimumDelayMs <= MaxNowFair /\ Hide)
  \/ Show

SpecFair ==
  /\ Init /\ [][NextFair]_vars
  /\ WF_vars(TickFair)
  /\ WF_vars(FrameCallback)
  /\ WF_vars(TimerCallback)

\* The stored preferences: the script runs over any content of the store,
\* the user changes the selections and the sound switch, and the page is
\* loaded again.  Stored durations are strings parseInt reads a number from.
StoredExercises ==
  {Null, Some(""), Some("relaxing"), Some("calm"), Some("box"),
   Some("constructor")}
StoredDurations ==
  {Null, Some(toString(0)), Some(toString(ShortSession)),
   Some(toString(DefaultDuration)), Some(toString(-ShortSession)),
   Some(<< " " >> \o toString(ShortSession) \o << "m" >>)}
StoredSounds == {Null, Some("true"), Some("false"), Some("on")}
StoredPreferences ==
  [available : BOOLEAN, exercise : StoredExercises,
   duration : StoredDurations, sound : StoredSounds]

InitFrom(s) ==
  /\ now = TickMs
  /\ visible = TRUE
  /\ currentExercise = s.currentExercise
  /\ sessionDuration = s.sessionDuration
  /\ isRunning = s.isRunning
  /\ currentPhaseIndex = s.currentPhaseIndex
  /\ cycleCount = s.cycleCount
  /\ animationFrameId = s.animationFrameId
  /\ backgroundTimerId = s.backgroundTimerId
  /\ phaseStartTime = s.phaseStartTime
  /\ sessionStartTime = s.sessionStartTime
  /\ pausedTimeRemaining = s.pausedTimeRemaining
  /\ lastPhaseName = s.lastPhaseName
  /\ mediaSessionReady = s.mediaSessionReady
  /\ pendingFrames = s.pendingFrames
  /\ pendingTimers = s.pendingTimers
  /\ lifecycle = s.lifecycle
  /\ lastStart = s.lastStart
  /\ completeCount = s.completeCount
  /\ cuesThisPhase = s.cuesThisPhase
  /\ displayedCycleCount = s.displayedCycleCount
  /\ evalsThisPhase = s.evalsThisPhase
  /\ lastEvaluation = s.lastEvaluation
  /\ missedCue = s.missedCue
  /\ phaseElapsedAtPause = s.phaseElapsedAtPause
  /\ evaluatedNow = s.evaluatedNow
  /\ lateAdvance = s.lateAdvance
  /\ overdue = s.overdue
  /\ roundTrip = s.roundTrip
  /\ uninterrupted = s.uninterrupted
  /\ soundEnabled = s.soundEnabled
  /\ preferences = s.preferences
  /\ listenersReady = s.listenersReady
  /\ projection = Null
  /\ wake = NoWake
  /\ tone = NoTone
  /\ selection = Null
  /\ timeRemainingEl = Null
  /\ ranWhileStopped = s.ranWhileStopped

InitStored == \E p \in StoredPreferences : InitFrom(init(Construction(p)))

\* The page is loaded again: the script runs anew over the store as it is.
LoadPage ==
  /\ Commit(init(Construction(preferences)))
  /\ UNCHANGED << now, visible >>

\* Tap on the sound button (app.js:1537-1553).
SoundToggle ==
  /\ visible /\ listenersReady
  /\ Commit(saveState([St EXCEPT !.soundEnabled = ~@]))
  /\ UNCHANGED << now, visible >>

NextStored ==
  \/ LoadPage
  \/ SelectExercise
  \/ SelectDuration
  \/ SoundToggle

SpecStored == InitStored /\ [][NextStored]_vars

\* The render projector, in fixed point: a progress, an eased progress and a
\* cosine are counted in thousandths (Unit), a scale factor likewise.
Unit == 1000
\* Progress samples are the multiples of 1/ProgressSteps.
ProgressSteps == 24
\* app.js:857-858
SCALE_MIN == 1 * Unit
SCALE_MAX == (5 * Unit) \div 2

\* Math.cos(Math.PI * k / ProgressSteps), rounded to the thousandth.
CosPi ==
  << 1000, 991, 966, 924, 866, 793, 707, 609, 500, 383, 259, 131, 0,
     -131, -259, -383, -500, -609, -707, -793, -866, -924, -966, -991, -1000 >>

\* easeInOutSine (app.js:1816-1818) at the progress k / ProgressSteps.
easeInOutSine_NoOffset(k) == (-CosPi[k + 1]) \div 2
easeInOutSine(k) == (-(CosPi[k + 1] - Unit)) \div 2

\* The scale updateCircleScale computes (app.js:1801-1811).
scaleFor_HoldAtRest(phase, k) ==
  LET easedProgress == easeInOutSine(k)
  IN IF phase.scale = "grow"
     THEN SCALE_MIN + ((SCALE_MAX - SCALE_MIN) * easedProgress) \div Unit
     ELSE IF phase.scale = "shrink"
     THEN SCALE_MAX - ((SCALE_MAX - SCALE_MIN) * easedProgress) \div Unit
     ELSE SCALE_MIN
scaleFor(phase, k) ==
  LET easedProgress == easeInOutSine(k)
  IN IF phase.scale = "grow"
     THEN SCALE_MIN + ((SCALE_MAX - SCALE_MIN) * easedProgress) \div Unit
     ELSE IF phase.scale = "shrink"
     THEN SCALE_MAX - ((SCALE_MAX - SCALE_MIN) * easedProgress) \div Unit
     ELSE SCALE_MAX

\* updateCircleScale(phase, progress) (app.js:1801-1814), as the sample taken.
updateCircleScale(phase, k) ==
  [phase |-> phase, progress |-> k, eased |-> easeInOutSine(k),
   scale |-> scaleFor(phase, k)]

Phases == UNION {Range(EXERCISES[ex]) : ex \in ExerciseIds}

\* The projector is applied to a phase of the catalog and a progress in [0, 1].
Project ==
  /\ \E phase \in Phases, k \in 0..ProgressSteps :
       projection' = Some(updateCircleScale(phase, k))
  /\ Install(St)
  /\ UNCHANGED << now, visible, wake, tone, selection, timeRemainingEl >>

SpecProjector == Init /\ [][Project]_vars

\* Foreground sessions with the wake lock: the engine's handlers together
\* with their wake-lock calls, the settling of the requests they leave
\* pending, the sentinel's 'release' event, the keep-alive interval and the
\* delayed release.  Time also passes while the engine is idle and a release
\* or an interval is still to run.
CommitWake(s, w) ==
  /\ WithinBounds(s) /\ Install(s)
  /\ wake' = armDelayedRelease(w, St, s, now)
  /\ WakeWithinBounds(wake')
  /\ UNCHANGED << projection, now, visible, tone, selection, timeRemainingEl >>

TickWake ==
  /\ lifecycle # "idle" \/ wake.releaseTimers # {} \/ wake.intervals # {}
  /\ Advance(MaxNowWake)

\* toggleSession (app.js:1622-1691): startSession calls requestWakeLock
\* (app.js:1641), pauseSession leaves the wake lock alone.
ToggleSessionWake ==
  /\ visible /\ listenersReady
  /\ IF isRunning
     THEN CommitWake(pauseSession(St, now), wake)
     ELSE CommitWake(startSession(St, now), requestWakeLock(wake, now))

\* resetSession (app.js:1693-1727) with its releaseWakeLock (app.js:1710).
ResetClickWake ==
  /\ visible /\ listenersReady
  /\ CommitWake(resetSession(St), releaseWakeLock(wake))

\* A frame callback; a completion arms the delayed release.
FrameCallbackWake ==
  /\ visible
  /\ pendingFrames # << >>
  /\ CommitWake(runAnimation([St EXCEPT !.pendingFrames = Tail(@),
                                        !.ranWhileStopped = ~isRunning],
                             now), wake)

\* navigator.wakeLock.request settles, granted or rejected.
RequestSettles ==
  /\ wake.awaitingRequest > 0
  /\ \E granted \in BOOLEAN :
       CommitWake(St, requestSettles(wake, now, granted))

\* noSleepVideo.play() settles.
PlaySettles ==
  /\ wake.awaitingPlay > 0
  /\ CommitWake(St, playSettles(wake, now))

\* The 'release' event of a released sentinel is dispatched.
ReleaseEvent ==
  \E id \in wake.releasing : CommitWake(St, onRelease(wake, St, now, id))

\* completeSession's delayed release runs, at or after its delay.
DelayedRelease ==
  \E due \in wake.releaseTimers :
    /\ due <= now
    /\ CommitWake(St, releaseWakeLock([wake EXCEPT !.releaseTimers = @ \ {due}]))

\* A keep-alive interval runs, at or after its period.
KeepAlive ==
  \E iv \in wake.intervals :
    /\ iv.due <= now
    /\ CommitWake(St, keepAlive(wake, St, now, iv))

NextWake ==
  \/ TickWake
  \/ ToggleSessionWake
  \/ ResetClickWake
  \/ (lifecycle = "idle" /\ SelectDuration)
  \/ FrameCallbackWake
  \/ RequestSettles
  \/ PlaySettles
  \/ ReleaseEvent
  \/ DelayedRelease
  \/ KeepAlive

SpecWake == Init /\ [][NextWake]_vars

\* Foreground sessions with the phase tone: the handlers together with their
\* tone calls, the audio context's resume, the deferred start and the end of
\* an oscillator.  Every handler starts from a tone record that has started
\* nothing.
CommitTone(s, a) ==
  /\ WithinBounds(s) /\ Install(s)
  /\ tone' = a
  /\ ToneWithinBounds(a)
  /\ UNCHANGED << projection, now, visible, wake, selection, timeRemainingEl >>

Quiet == [tone EXCEPT !.started = FALSE]

TickTone ==
  /\ lifecycle # "idle" \/ tone.deferred # {} \/ tone.oscillators # {}
  /\ Advance(MaxNowTone)

\* handleStart (app.js:1497-1501): ensureAudioReady, then toggleSession;
\* pauseSession calls stopCurrentTone (app.js:1672), startSession ends with
\* runAnimation (app.js:1662).
ToggleSessionTone ==
  /\ visible /\ listenersReady
  /\ \E created \in {"suspended", "running"} :
       LET a == ensureAudioReady(Quiet, created)
       IN IF isRunning
          THEN CommitTone(pauseSession(St, now), stopCurrentTone(a, now))
          ELSE CommitTone(startSession(St, now),
                          evaluationTone(a, [St EXCEPT !.isRunning = TRUE,
                                                      !.lastPhaseName = Null],
                                         startSession(St, now), now))

\* resetSession (app.js:1693-1727): activePhaseName = null; stopCurrentTone().
ResetClickTone ==
  /\ visible /\ listenersReady
  /\ CommitTone(resetSession(St),
                stopCurrentTone([Quiet EXCEPT !.activePhaseName = Null], now))

\* A frame callback with its tone calls.
FrameCallbackTone ==
  /\ visible
  /\ pendingFrames # << >>
  /\ LET s == [St EXCEPT !.pendingFrames = Tail(@),
                         !.ranWhileStopped = ~isRunning]
     IN CommitTone(runAnimation(s, now),
                   evaluationTone(Quiet, s, runAnimation(s, now), now))

\* The pending resume() of the audio context resolves.
ContextResumes ==
  /\ tone.audioContext = "suspended"
  /\ CommitTone(St, [Quiet EXCEPT !.audioContext = "running"])

\* A deferred start runs, at or after its delay.
DeferredStart ==
  \E df \in tone.deferred :
    /\ df.due <= now
    /\ CommitTone(St, deferredStart(Quiet, now, df))

\* An oscillator stops and its onended handler runs.
ToneEnds ==
  \E osc \in tone.oscillators :
    /\ osc.end <= now
    /\ CommitTone(St, onended(Quiet, osc))

NextTone ==
  \/ TickTone
  \/ ToggleSessionTone
  \/ ResetClickTone
  \/ FrameCallbackTone
  \/ ContextResumes
  \/ DeferredStart
  \/ ToneEnds

SpecTone == Init /\ [][NextTone]_vars

\* Foreground sessions over a usable, empty preference store, in which every
\* activation of an exercise or duration button is observed: which kind of
\* button, whether the session was running, and whether the button stands for
\* another value than the current one.
EmptyStore ==
  [available |-> TRUE, exercise |-> Null, duration |-> Null, sound |-> Null]

InitPreferences == InitFrom(init(Construction(EmptyStore)))

CommitSelection(s, sel) ==
  /\ WithinBounds(s) /\ Install(s)
  /\ selection' = Some(sel)
  /\ UNCHANGED << projection, wake, tone, now, visible, timeRemainingEl >>

SelectExerciseObserved ==
  /\ visible /\ listenersReady
  /\ \E ex \in ExerciseIds :
       CommitSelection(selectExercise(St, ex),
                       [kind |-> "exercise", running |-> isRunning,
                        other |-> ex # currentExercise])

SelectDurationObserved ==
  /\ visible /\ listenersReady
  /\ \E d \in DurationButtons :
       CommitSelection(selectDuration(St, d),
                       [kind |-> "duration", running |-> isRunning,
                        other |-> Val(parseInt(d)) # sessionDuration])

TickPreferences == TickUntil(MaxNowPreferences)

NextPreferences ==
  \/ TickPreferences
  \/ ToggleSession
  \/ ResetClick
  \/ FrameCallback
  \/ SelectExerciseObserved
  \/ SelectDurationObserved

SpecPreferences == InitPreferences /\ [][NextPreferences]_vars

\* The session-remaining text, in fixed point: the elapsed and the remaining
\* session time are counted in ms.
\* String.prototype.padStart(n, c) (app.js:1831).
RECURSIVE padStart(_, _, _)
padStart(str, n, c) == IF Len(str) >= n THEN str ELSE padStart(<< c >> \o str, n, c)

\* updateTimeRemaining (app.js:1820-1832) over sessionDuration and
\* sessionStartTime: mins = Math.floor(remaining / 60),
\* secs = Math.ceil(remaining % 60), text = mins:secs with secs padded to two
\* characters; the empty text for an unbounded session.
updateTimeRemaining(duration, startTime, t) ==
  IF duration = 0 THEN << >>
  ELSE
    LET remaining == Max(0, duration * 1000 - (t - startTime))
        mins == remaining \div 60000
        secs == ((remaining % 60000) + 999) \div 1000
    IN toString(mins) \o << ":" >> \o padStart(toString(secs), 2, "0")

\* The bounded sessions sampled and the instants since their start.
BoundedDurations == {ShortSession, DefaultDuration}
ElapsedSamples == {k * SampleStepMs : k \in 0..MaxRemainingSamples}

\* runAnimation writes the text for a session of the given duration that
\* started at the current instant and has run for the sampled time.
WriteRemaining ==
  /\ \E d \in BoundedDurations, e \in ElapsedSamples :
       timeRemainingEl' =
         Some([sessionDuration |-> d, elapsed |-> e,
               text |-> updateTimeRemaining(d, now, now + e)])
  /\ Install(St)
  /\ UNCHANGED << now, visible, projection, wake, tone, selection >>

SpecRemaining == Init /\ [][WriteRemaining]_vars

\* ------------------------------------------------------------------ claims
\* A step in which start() resumes a paused session (it may complete at once).
ResumeStep == lifecycle = "paused" /\ lifecycle' \in {"running", "complete"}

\* max(0, sessionDuration - sessionElapsed), in ms, in the state after a step.
RemainingAfter ==
  Max(0, sessionDuration' * 1000 - (now' - Num(sessionStartTime')))

\* C1: pausing at phase-elapsed e and resuming continues the phase: right after
\* the resume the phase elapsed time equals the one sampled by the pause.
C1_ResumeKeepsPhaseElapsed ==
  [][ResumeStep => now' - Num(phaseStartTime') = phaseElapsedAtPause]_vars

\* C2: for a bounded session, the remaining time right after a resume equals
\* the remaining time snapshotted by the pause, however long the pause lasted,
\* and pausedTimeRemaining is null again.
C2_ResumeKeepsRemaining ==
  [][(ResumeStep /\ sessionDuration > 0 /\ pausedTimeRemaining # Null)
       => /\ RemainingAfter = Val(pausedTimeRemaining)
          /\ pausedTimeRemaining' = Null]_vars

\* C2 witness: a bounded session running again after a pause that lasted some
\* time (the session anchor was moved), the snapshot consumed.
C2_Witness ==
  /\ lastStart = "resume" /\ isRunning /\ sessionDuration > 0
  /\ pausedTimeRemaining = Null
  /\ Num(sessionStartTime) > TickMs
  /\ now - Num(sessionStartTime) > 0

\* ---- Session completion -------------------------------------------------

\* The running phase has lasted its whole duration.
PhaseFinished ==
  /\ HasPhase(currentExercise, currentPhaseIndex)
  /\ now - Num(phaseStartTime)
       >= PhaseAt(currentExercise, currentPhaseIndex).duration

\* A step in which a driving callback evaluates the scheduler.
EvaluationStep == FrameCallback \/ TimerCallback \/ Show

\* A step that is a call of start().
StartStep == ~isRunning /\ (ToggleSession \/ MediaPlay)

C4_CompletionHasPriority ==
  [][(/\ EvaluationStep
      /\ isRunning
      /\ PhaseFinished
      /\ SessionOver(St, now))
       => /\ completeCount' = completeCount + 1
          /\ ~isRunning'
          /\ currentPhaseIndex' = currentPhaseIndex
          /\ cycleCount' = cycleCount
          /\ phaseStartTime' = phaseStartTime
          /\ animationFrameId' = 0
          /\ backgroundTimerId' = 0
          /\ Range(pendingFrames') \subseteq Range(pendingFrames)
          /\ pendingTimers' = {}]_vars

C4_Witness ==
  /\ lifecycle = "complete" /\ completeCount = 1
  /\ lastEvaluation = "coarse"
  /\ currentPhaseIndex = 0 /\ cycleCount = 0
  /\ Num(phaseStartTime) + PhaseAt(currentExercise, 0).duration
       <= Num(sessionStartTime) + sessionDuration * 1000
  /\ pendingTimers = {} /\ pendingFrames = << >>

\* C5: a running bounded session never has its next evaluation due later
\* than one callback granularity after the session's end; in coarse mode the
\* pending timer is due by then.
C5_NoRunningPastTotal ==
  \A tm \in pendingTimers :
    (isRunning /\ sessionDuration > 0)
      => tm.due <= Max(now, Num(sessionStartTime) + sessionDuration * 1000)
                     + MinimumDelayMs

\* ---- Cues ---------------------------------------------------------------

\* C6: within one phase entry the cue is emitted at most once, and exactly
\* once when the frame loop has evaluated the phase, however often it did.
C6_CueOncePerPhaseEntry ==
  /\ cuesThisPhase <= 1
  /\ evalsThisPhase >= 1 => cuesThisPhase = 1

C6_Witness ==
  /\ isRunning /\ evalsThisPhase >= 2 /\ cuesThisPhase = 1
  /\ currentPhaseIndex > 0

\* C7: every phase entered while running receives its cue before the
\* engine leaves it for the next phase.
C7_EveryEnteredPhaseGetsCue == ~missedCue

\* ---- Phase advance ------------------------------------------------------

\* C8: the phase index changes only by reset() or from i to (i + 1) mod n,
\* and then only when the phase has lasted at least its duration.
C8_AdvanceOnlyWhenDue ==
  [][currentPhaseIndex' # currentPhaseIndex
       => \/ lifecycle' = "idle" /\ currentPhaseIndex' = 0
          \/ /\ PhaseFinished
             /\ currentPhaseIndex'
                  = (currentPhaseIndex + 1) % Len(EXERCISES[currentExercise])]_vars

C8_Witness ==
  /\ isRunning /\ ~visible
  /\ lastEvaluation = "coarse"
  /\ cycleCount = 1 /\ currentPhaseIndex = 0
  /\ phaseStartTime = Some(now)

\* ---- Driving modes ------------------------------------------------------

\* Session elapsed time, and the phase schedule of a run whose every phase
\* lasts exactly its duration.
Elapsed == now - Num(sessionStartTime)

IdealCycleCount(ex, e) == e \div CycleMs(ex)

IdealPhaseIndex(ex, e) ==
  CHOOSE i \in 0..(Len(EXERCISES[ex]) - 1) :
    /\ SumDurations(ex, i) <= e % CycleMs(ex)
    /\ e % CycleMs(ex) < SumDurations(ex, i + 1)

OnIdealSchedule ==
  /\ cycleCount = IdealCycleCount(currentExercise, Elapsed)
  /\ currentPhaseIndex = IdealPhaseIndex(currentExercise, Elapsed)

\* C9 as the spec states it: a run that went to coarse mode mid-phase and
\* back, none of whose callbacks ran after it was due, is at the evaluated
\* instant where a one-mode run is for the same elapsed time.
C9_ModeSwitchKeepsSchedule ==
  (uninterrupted /\ isRunning /\ evaluatedNow /\ roundTrip = 2 /\ ~overdue)
    => OnIdealSchedule

\* C9, amended: the runs agree when every phase advance was evaluated at the
\* instant the phase's duration had elapsed (no callback late, no timer
\* armed for the minimum delay with less than that left in the phase).
C9_ModeSwitchKeepsScheduleWhenPunctual ==
  (uninterrupted /\ isRunning /\ evaluatedNow /\ ~lateAdvance)
    => OnIdealSchedule

C9_Witness ==
  /\ uninterrupted /\ isRunning /\ evaluatedNow /\ ~lateAdvance
  /\ roundTrip = 2
  /\ cycleCount >= 1

\* C10 as the spec states it: an evaluation after exactly one cycle's worth
\* of continuous running finds cycleCount = 1 and phase 0, whatever the
\* spacing of the earlier callbacks.
C10_OneCycleAfterCycleMs ==
  (uninterrupted /\ isRunning /\ evaluatedNow
     /\ Elapsed = CycleMs(currentExercise))
    => (cycleCount = 1 /\ currentPhaseIndex = 0)

\* C10, amended: it does when the earlier phase boundaries were each
\* evaluated at their instant.
C10_OneCycleAfterCycleMsWhenPunctual ==
  (uninterrupted /\ isRunning /\ evaluatedNow /\ ~lateAdvance
     /\ Elapsed = CycleMs(currentExercise))
    => (cycleCount = 1 /\ currentPhaseIndex = 0)

C10_Witness ==
  /\ uninterrupted /\ isRunning /\ evaluatedNow /\ ~lateAdvance
  /\ currentExercise = "calm"
  /\ Elapsed = CycleMs("calm")
  /\ cycleCount = 1 /\ currentPhaseIndex = 0

\* ---- Pause, reset, completion -------------------------------------------

\* C11: once pause() or reset() has returned (and until the next start), no
\* animation frame and no background timer is pending.
C11_NoCallbackPendingWhenStopped ==
  lifecycle \in {"paused", "idle"}
    => (pendingFrames = << >> /\ pendingTimers = {})

\* C12: a reset() step, from whatever state, leaves the session state zeroed.
C12_ResetZeroesSessionState ==
  [][ResetClick
       => /\ ~isRunning'
          /\ currentPhaseIndex' = 0
          /\ cycleCount' = 0
          /\ phaseStartTime' = Null
          /\ sessionStartTime' = Null
          /\ pausedTimeRemaining' = Null
          /\ lastPhaseName' = Null]_vars

C12_Witness ==
  /\ lifecycle = "idle"
  /\ now - TickMs >= CycleMs(currentExercise)
  /\ ~isRunning /\ currentPhaseIndex = 0 /\ cycleCount = 0
  /\ phaseStartTime = Null /\ sessionStartTime = Null
  /\ pausedTimeRemaining = Null /\ lastPhaseName = Null

\* A step that is a call of pause().
PauseStep == isRunning /\ (ToggleSession \/ MediaPause)

\* C13: pause() stops the engine, snapshots the remaining time of a bounded
\* session as max(0, total - elapsed), and keeps cycle count and phase index.
C13_PauseSnapshotsRemaining ==
  [][PauseStep
       => /\ ~isRunning'
          /\ cycleCount' = cycleCount
          /\ currentPhaseIndex' = currentPhaseIndex
          /\ sessionDuration > 0
               => pausedTimeRemaining' =
                    Some(Max(0, sessionDuration * 1000 - Elapsed))]_vars

C13_Witness ==
  /\ lifecycle = "paused" /\ ~isRunning
  /\ sessionDuration > 0
  /\ currentPhaseIndex = 1
  /\ pausedTimeRemaining = Some(sessionDuration * 1000 - Elapsed)
  /\ Elapsed > 0

\* A step that takes the complete transition.
CompleteStep == completeCount' = completeCount + 1

\* C14: the complete transition stops the engine with no frame and no timer
\* left pending, and keeps cycle count and phase index.
C14_CompleteStopsDriving ==
  [][CompleteStep
       => /\ ~isRunning'
          /\ pendingFrames' = << >>
          /\ pendingTimers' = {}
          /\ cycleCount' = cycleCount
          /\ currentPhaseIndex' = currentPhaseIndex]_vars

\* C15: no step taken with sessionDuration = 0 is a complete transition.
C15_UnboundedNeverCompletes ==
  [][sessionDuration = 0 => ~CompleteStep]_vars

C15_Witness ==
  /\ sessionDuration = 0 /\ isRunning /\ completeCount = 0
  /\ lastStart = "resume"
  /\ lastEvaluation = "coarse"
  /\ cycleCount >= 1

\* ---- Platform failures --------------------------------------------------

\* C16: whatever the wake-lock, audio and media-session calls of start() do,
\* start() leaves the engine running with the phase and session timestamps
\* set and a driving callback armed (or the session complete).
C16_StartSurvivesPlatformFailures ==
  [][(~isRunning /\ (ToggleSessionIn \/ MediaPlayIn))
       => \/ /\ isRunning'
             /\ phaseStartTime' = Some(now)
             /\ sessionStartTime' # Null
             /\ pendingFrames' # << >>
          \/ lifecycle' = "complete"]_vars

\* ---- Phase index --------------------------------------------------------

\* C17: currentPhaseIndex is always an index of a phase of the selected
\* exercise.
C17_PhaseIndexInRange == HasPhase(currentExercise, currentPhaseIndex)

\* ---- Visibility ---------------------------------------------------------

\* The session state proper of a state record.
SessionState(s) ==
  << s.isRunning, s.currentPhaseIndex, s.cycleCount, s.phaseStartTime,
     s.sessionStartTime, s.pausedTimeRemaining, s.lastPhaseName >>

\* C18: going hidden leaves the session state as it is and, when running,
\* trades the frame request for a timer; returning to the foreground changes
\* the session state as one scheduler evaluation at the current time does.
C18_VisibilityKeepsSessionState ==
  [][/\ Hide => /\ SessionState(St)' = SessionState(St)
                /\ isRunning => (animationFrameId' = 0 /\ backgroundTimerId' # 0)
     /\ Show => SessionState(St)' =
                  SessionState(IF isRunning THEN runAnimation(St, now) ELSE St)]_vars

C18_Witness ==
  /\ ~visible /\ isRunning
  /\ currentPhaseIndex = 1
  /\ lastEvaluation = "fine" /\ lastPhaseName # Null
  /\ pendingTimers # {}
  /\ now > Num(phaseStartTime)

\* C19: after every return to the foreground the displayed cycle count is
\* the cycle count.
C19_ShownCycleCountIsCurrent ==
  [][Show => displayedCycleCount' = cycleCount']_vars

\* ---- Phase progress -----------------------------------------------------

DefaultsAfterInit(ex, d, snd, ready, lc) ==
  /\ ex = "relaxing"
  /\ d = DefaultDuration
  /\ snd = TRUE
  /\ ready = TRUE
  /\ lc = "idle"

C21_InitSurvivesMissingStore ==
  /\ (~preferences.available =>
        DefaultsAfterInit(currentExercise, sessionDuration, soundEnabled,
                          listenersReady, lifecycle))
  /\ [][LoadPage /\ ~preferences.available =>
          DefaultsAfterInit(currentExercise', sessionDuration', soundEnabled',
                            listenersReady', lifecycle')]_vars

\* The store holds other values than the defaults but cannot be read, and
\* the page has been initialized.
C21_Witness ==
  /\ ~preferences.available
  /\ preferences.exercise = Some("calm")
  /\ preferences.sound = Some("false")
  /\ preferences.duration = Some(toString(ShortSession))
  /\ listenersReady
  /\ DefaultsAfterInit(currentExercise, sessionDuration, soundEnabled,
                       listenersReady, lifecycle)

\* C22: after initialization from the preference store, whatever it holds,
\* and after any user selection, the selected exercise id is a key of the
\* catalog and sessionDuration is a non-negative integer.
C22_ConfigurationValid ==
  listenersReady =>
    /\ currentExercise \in ExerciseIds
    /\ sessionDuration \in Nat

\* C23: the scale of a growing phase goes from SCALE_MIN at progress 0 to
\* SCALE_MAX at progress 1, that of a shrinking phase from SCALE_MAX to
\* SCALE_MIN, a held phase has SCALE_MAX at every progress, and at every
\* progress in [0, 1] the scale lies in [SCALE_MIN, SCALE_MAX].
C23_ScaleForEndpointsAndRange ==
  projection # Null =>
    LET pr == Val(projection)
    IN /\ pr.scale >= SCALE_MIN /\ pr.scale <= SCALE_MAX
       /\ (pr.phase.scale = "grow" /\ pr.progress = 0 => pr.scale = SCALE_MIN)
       /\ (pr.phase.scale = "grow" /\ pr.progress = ProgressSteps
             => pr.scale = SCALE_MAX)
       /\ (pr.phase.scale = "shrink" /\ pr.progress = 0
             => pr.scale = SCALE_MAX)
       /\ (pr.phase.scale = "shrink" /\ pr.progress = ProgressSteps
             => pr.scale = SCALE_MIN)
       /\ (pr.phase.scale = "hold" => pr.scale = SCALE_MAX)

\* A held phase has been projected in the middle of its duration.
C23_Witness ==
  /\ projection # Null
  /\ Val(projection).phase.scale = "hold"
  /\ Val(projection).progress = ProgressSteps \div 2
  /\ Val(projection).scale = SCALE_MAX

C25_AtMostOneTransition ==
  [][EvaluationStep =>
       LET n == Len(EXERCISES[currentExercise])
       IN \/ /\ currentPhaseIndex' = currentPhaseIndex
             /\ cycleCount' = cycleCount
          \/ /\ currentPhaseIndex' = (currentPhaseIndex + 1) % n
             /\ cycleCount' =
                  cycleCount + (IF currentPhaseIndex + 1 = n THEN 1 ELSE 0)]_vars

\* The first evaluation of a session came after a whole cycle had elapsed,
\* and moved to the second phase only.
C25_Witness ==
  /\ isRunning
  /\ lastStart = "fresh"
  /\ now - Num(sessionStartTime) >= CycleMs(currentExercise)
  /\ phaseStartTime = Some(now)
  /\ currentPhaseIndex = 1
  /\ cycleCount = 0

\* A driving callback is armed: the frame request or the timer whose handle
\* the engine holds is pending.
DrivingArmed ==
  \/ animationFrameId # 0 /\ animationFrameId \in Range(pendingFrames)
  \/ backgroundTimerId # 0 /\ \E tm \in pendingTimers : tm.id = backgroundTimerId

\* C26: every driving callback evaluated while running that does not complete
\* the session re-arms a driving callback before it returns, so that a running
\* session is never left without a pending frame request or timer.
C26_RunningStaysDriven == isRunning => DrivingArmed

\* An evaluation step takes the phase index from the last phase to phase 0.
WrapStep ==
  /\ EvaluationStep
  /\ currentPhaseIndex = Len(EXERCISES[currentExercise]) - 1
  /\ currentPhaseIndex' = 0

\* C27: cycleCount grows by exactly 1 in exactly the transitions in which the
\* phase index wraps from the last phase to 0, in both driving modes; every
\* other step leaves it alone, except reset, which sets it to 0 (so it never
\* decreases between two resets).
C27_CycleCountCountsWraps ==
  [][/\ (WrapStep => cycleCount' = cycleCount + 1)
     /\ (~WrapStep =>
           \/ cycleCount' = cycleCount
           \/ ResetClick /\ cycleCount' = 0)]_vars

\* The timer callback has just wrapped to phase 0 and counted the first cycle.
C27_Witness ==
  /\ isRunning
  /\ lastEvaluation = "coarse"
  /\ phaseStartTime = Some(now)
  /\ currentPhaseIndex = 0
  /\ cycleCount = 1

\* A step that arms the background timer: the page is hidden while running,
\* or the timer callback has advanced the phase.
ArmStep ==
  \/ Hide /\ isRunning
  \/ TimerCallback /\ isRunning /\ isRunning'

\* C28: in coarse-grained mode the single-shot timer is armed with the delay
\* max(10 ms, phase.duration - (now - phaseStartTime)) computed when it is
\* armed: it is the only timer pending, it never fires before the current
\* phase's duration has elapsed, and after each phase transition it is armed
\* again, for the phase entered.
C28_TimerDelayAndRearm ==
  [][/\ (ArmStep =>
           \E tm \in pendingTimers' :
             /\ pendingTimers' = {tm}
             /\ tm.id = backgroundTimerId'
             /\ tm.due = now + Max(MinimumDelayMs,
                                   PhaseAt(currentExercise', currentPhaseIndex').duration
                                   - (now - Num(phaseStartTime'))))
     /\ (TimerCallback /\ isRunning =>
           now - Num(phaseStartTime)
             >= PhaseAt(currentExercise, currentPhaseIndex).duration)
     /\ (TimerCallback /\ isRunning /\ isRunning' =>
           /\ phaseStartTime' = Some(now)
           /\ currentPhaseIndex' # currentPhaseIndex)]_vars

\* The page was hidden after the end of the phase: the timer is armed with
\* the minimum delay.
C28_Witness ==
  /\ isRunning /\ ~visible
  /\ now - Num(phaseStartTime)
       >= PhaseAt(currentExercise, currentPhaseIndex).duration
  /\ \E tm \in pendingTimers :
       tm.id = backgroundTimerId /\ tm.due = now + MinimumDelayMs

\* C29: whenever the session is running and the page is hidden, a background
\* timer is armed, whether the page was hidden while running or the session
\* was started or resumed while hidden (lock-screen 'play' action).
C29_HiddenRunningHasTimer ==
  isRunning /\ ~visible =>
    /\ backgroundTimerId # 0
    /\ \E tm \in pendingTimers : tm.id = backgroundTimerId

\* C30: a bounded session that is started and then never paused or reset
\* eventually reaches complete, under any sequence of visibility changes,
\* when frame callbacks eventually fire while the page is visible and armed
\* timers eventually fire: a running bounded session does not stay running
\* for ever.
C30_BoundedSessionCompletes ==
  (lifecycle = "running" /\ sessionDuration > 0) ~> (lifecycle # "running")

\* C31: at every moment at most one driving callback is pending in total:
\* never two animation-frame requests and never a frame request together
\* with a background timer.
C31_AtMostOneCallbackPending ==
  Len(pendingFrames) + Cardinality(pendingTimers) <= 1

\* C32: a frame or timer callback that fires while isRunning is false changes
\* nothing: the session state is unchanged, no cue is emitted, and no frame
\* request or timer is armed (the callback that ran is the only one gone).
C32_StoppedCallbackIsInert ==
  [][(FrameCallback \/ TimerCallback) /\ ~isRunning =>
       /\ SessionState(St)' = SessionState(St)
       /\ currentExercise' = currentExercise
       /\ sessionDuration' = sessionDuration
       /\ cuesThisPhase' = cuesThisPhase
       /\ displayedCycleCount' = displayedCycleCount
       /\ lifecycle' = lifecycle /\ completeCount' = completeCount
       /\ animationFrameId' = animationFrameId
       /\ Range(pendingFrames') \subseteq Range(pendingFrames)
       /\ pendingTimers' \subseteq pendingTimers]_vars

\* A callback has run while the session was paused.
C32_Witness ==
  /\ ranWhileStopped
  /\ ~isRunning
  /\ lifecycle = "paused"

\* ---- Wake lock -----------------------------------------------------------
\* No requestWakeLock invocation is suspended at an await.
WakeSettled == wake.awaitingRequest = 0 /\ wake.awaitingPlay = 0

\* A wake lock is held: a sentinel, the playing fallback video or a
\* keep-alive interval.
WakeHeld == wake.held # {} \/ wake.playing \/ wake.intervals # {}

\* C33: once reset() has returned and every wake-lock request issued before it
\* has settled, no wake lock is held while the engine is idle: no sentinel, no
\* playing fallback video, no keep-alive interval.
C33_NoLockHeldWhileIdle == (lifecycle = "idle" /\ WakeSettled) => ~WakeHeld

\* C34: after a session has completed and its delayed release has run, the
\* wake lock is released and stays released until the next start(): with
\* every request settled and every 'release' event dispatched, nothing is
\* held while the engine is in the completed state.
C34_ReleasedAfterCompletion ==
  (/\ lifecycle = "complete" /\ wake.releaseTimers = {}
   /\ WakeSettled /\ wake.releasing = {})
    => ~WakeHeld

\* A step in which the application releases the wake lock: a held sentinel is
\* released or the playing fallback video is paused.
ReleaseStep ==
  \/ wake.held \ wake'.held # {}
  \/ wake.playing /\ ~wake'.playing

\* C35: while a session is in progress (running or paused) the application
\* releases the wake lock only in the reset() that ends that session.
C35_NoReleaseInSession ==
  [][(lifecycle \in {"running", "paused"} /\ ReleaseStep)
       => lifecycle' = "idle"]_vars

\* ---- Phase tone ----------------------------------------------------------
\* C36: after pause() has returned no phase tone starts playing until the next
\* start(): no handler that leaves the session paused has started a tone.
C36_NoToneStartsWhilePaused == tone.started => lifecycle # "paused"

\* ---- Restart after completion --------------------------------------------
\* C37: a start() issued after the session has completed, without a reset in
\* between, does not continue the exercise: the session's anchor is kept, the
\* evaluation inside start() completes the session again, and cycleCount and
\* currentPhaseIndex are unchanged.
C37_RestartCompletesAgain ==
  [][(lifecycle = "complete" /\ (ToggleSession \/ MediaPlay))
       => /\ sessionStartTime' = sessionStartTime
          /\ lifecycle' = "complete" /\ ~isRunning'
          /\ completeCount' = completeCount + 1
          /\ cycleCount' = cycleCount
          /\ currentPhaseIndex' = currentPhaseIndex]_vars

\* ---- Selection while running ---------------------------------------------
\* C38: while isRunning is true, activating an exercise button or a duration
\* button changes neither currentExercise nor sessionDuration nor the stored
\* preferences.
C38_SelectionWhileRunningIgnored ==
  [][(isRunning /\ (SelectExerciseObserved \/ SelectDurationObserved))
       => /\ currentExercise' = currentExercise
          /\ sessionDuration' = sessionDuration
          /\ preferences' = preferences]_vars

\* A button for another exercise was activated while the session was running,
\* over a store that holds the preferences saved by an earlier selection.
C38_Witness ==
  /\ selection # Null
  /\ Val(selection).running /\ Val(selection).other
  /\ Val(selection).kind = "exercise"
  /\ isRunning
  /\ preferences.available
  /\ preferences.exercise = Some(currentExercise)
  /\ preferences.duration = Some(toString(sessionDuration))

\* ---- Session-remaining text -----------------------------------------------
\* The text has the form m:ss: digits, a colon, two digits.
IsMinutesSeconds(text) ==
  /\ Len(text) >= 4
  /\ text[Len(text) - 2] = ":"
  /\ \A i \in 1..Len(text) : i # Len(text) - 2 => IsDigit(text[i])

\* C39: the session-remaining text written for a bounded session has the form
\* m:ss with ss in 00..59, and m * 60 + ss is the remaining time
\* max(0, total - elapsed) rounded up to whole seconds.
C39_RemainingTextIsMinutesSeconds ==
  timeRemainingEl # Null =>
    LET r == Val(timeRemainingEl)
        n == Len(r.text)
        m == LeadingDigits(SubSeq(r.text, 1, n - 3), 0, 0)[2]
        ss == LeadingDigits(SubSeq(r.text, n - 1, n), 0, 0)[2]
        remaining == Max(0, r.sessionDuration * 1000 - r.elapsed)
    IN /\ IsMinutesSeconds(r.text)
       /\ ss <= 59
       /\ m * 60 + ss = (remaining + 999) \div 1000
====
